---- MODULE Spec2Model ----
(***************************************************************************)
(* mdfried: the streaming document reconciliation engine.                  *)
(*                                                                         *)
(* The Coordinator (Model, src/model.rs) owns the store of render units    *)
(* (WidgetSources, src/widget_sources.rs) and the current DocumentId.  It  *)
(* sends commands to the Worker over one channel and drains the Worker's   *)
(* events from another.  The Worker runs the parser (src/markdown.rs) for  *)
(* a Parse command and spawns one concurrent task per UrlImage / Header    *)
(* command; tasks complete in any order.                                   *)
(***************************************************************************)
EXTENDS Integers, Sequences, FiniteSets, TLC

VARIABLES
    main_pc,                \* position of main: "new" (Model::new returned) or "run"
    has_text_size_protocol, \* worker configuration, fixed at start-up
    document_id,            \* Model.document_id
    sources,                \* Model.sources.sources       (the live list)
    updated_images,         \* Model.sources.updated_images (the side-cache)
    cmd_chan,               \* mpsc channel Coordinator -> Worker
    event_chan,             \* mpsc channel Worker/watcher -> Coordinator
    worker_out,             \* events the Worker still has to send for the Parse it is handling
    tasks,                  \* image/header tasks the Worker has spawned and not yet completed
    reloads,                \* number of reloads requested so far
    call,                   \* history: the last call made on the Model or the store, its pre-state and result
    pass,                   \* history: the texts sent to parse, the passes begun, the store when the last began
    scroll,                 \* Model.scroll (u16)
    scroll_by_mul,          \* Model.scroll_by_mul (i16), the pending movement count
    cursor,                 \* Model.cursor
    screen_size,            \* Model.screen_size
    term_size,              \* screen_size of run: the size of the terminal
    session,                \* environment: for each read of the file in turn, the texts it may hold then
    cycle,                  \* run: where the turn of its loop is, and had_events, had_input, the poll timeout
    worker_pc               \* the Worker's thread: "running" or "terminated"

vars == <<main_pc, has_text_size_protocol, document_id, sources, updated_images,
          cmd_chan, event_chan, worker_out, tasks, reloads, call, pass,
          scroll, scroll_by_mul, cursor, screen_size, term_size, session, cycle, worker_pc>>

\* the viewport and the navigator
view == <<scroll, scroll_by_mul, cursor, screen_size, term_size>>

(***************************************************************************)
(* Bounds                                                                  *)
(***************************************************************************)
MaxReloads == 1
MaxLen == 4
MaxId == 2

(***************************************************************************)
(* Option<T>                                                               *)
(***************************************************************************)
None == <<>>
Some(x) == <<x>>
IsSome(o) == o # <<>>
Unwrap(o) == o[1]

Last(s) == s[Len(s)]

RECURSIVE Repeat(_, _)
Repeat(s, n) == IF n = 0 THEN "" ELSE s \o Repeat(s, n - 1)

(***************************************************************************)
(* DocumentId (src/model.rs)                                               *)
(***************************************************************************)
DocumentId(id, reload_id) == [id |-> id, reload_id |-> reload_id]
DocumentIdDefault == DocumentId(0, 0)

\* the gate left out: every event counts as one of the current document
is_same_document_any(self, other) == TRUE

is_same_document(self, other) == self.id = other.id

open(self) == DocumentId(self.id + 1, 0)

reload(self) == DocumentId(self.id, self.reload_id + 1)

\* the push path taken on every parse pass, first load or not
is_first_load_always(self) == TRUE

is_first_load(self) == self.reload_id = 0

(***************************************************************************)
(* WidgetSource and WidgetSourceData (src/widget_sources.rs)               *)
(***************************************************************************)
Line(line, extras) == [kind |-> "Line", line |-> line, extras |-> extras]
Image(url, proto) == [kind |-> "Image", url |-> url, proto |-> proto]
BrokenImage(url, text) == [kind |-> "BrokenImage", url |-> url, text |-> text]
Header(text, tier) == [kind |-> "Header", text |-> text, tier |-> tier]

\* LineExtra
Link(url, start, end) == [kind |-> "Link", url |-> url, start |-> start, end |-> end]
SearchMatch(start, end, text) ==
    [kind |-> "SearchMatch", start |-> start, end |-> end, text |-> text]

WidgetSource(id, height, data) == [id |-> id, height |-> height, data |-> data]

\* WidgetSource::image_unknown
image_unknown(id, url, text) == WidgetSource(id, 1, BrokenImage(url, text))

IsImage(source) == source.data.kind = "Image"

\* The placeholder lines the Coordinator and the store put in place of an image.
LoadingLine(url) == Line("![Loading...](" \o url \o ")", <<>>)
ReplacingLine(url) == Line("![Replacing...](" \o url \o ")", <<>>)
HeaderLine(tier, text) == Line(Repeat("#", tier) \o " " \o text, <<>>)

(***************************************************************************)
(* WidgetSources: a store is the pair of the live list and the side-cache. *)
(***************************************************************************)
WidgetSources(srcs, imgs) == [sources |-> srcs, updated_images |-> imgs]
WidgetSourcesDefault == WidgetSources(<<>>, <<>>)

\* WidgetSources::push (the uniqueness debug_assert is push_assertion)
push_assertion(ws, source) == \A i \in 1..Len(ws.sources) : ws.sources[i].id # source.id

push(ws, source) == WidgetSources(Append(ws.sources, source), ws.updated_images)

\* The range the loop of update finds: the first contiguous run of first_id.
\* range_start is 0 when no entry has that id.
range_start(srcs, first_id) ==
    IF \E i \in 1..Len(srcs) : srcs[i].id = first_id
    THEN CHOOSE i \in 1..Len(srcs) :
            /\ srcs[i].id = first_id
            /\ \A j \in 1..(i - 1) : srcs[j].id # first_id
    ELSE 0

\* the scan stopped after the first entry of the run
range_end_first(srcs, start, first_id) == start

range_end(srcs, start, first_id) ==
    CHOOSE e \in start..Len(srcs) :
        /\ \A j \in start..e : srcs[j].id = first_id
        /\ (e = Len(srcs) \/ srcs[e + 1].id # first_id)

\* the payloads of the removed entries dropped
spliced_images_dropped(removed) == <<>>

RECURSIVE spliced_images(_)
spliced_images(removed) ==
    IF removed = <<>> THEN <<>>
    ELSE LET splice == Head(removed)
         IN (IF IsImage(splice)
             THEN << <<splice.height, splice.data.url, splice.data.proto>> >>
             ELSE <<>>) \o spliced_images(Tail(removed))

\* the updates spliced in before the run, the run left in place
update_insert(ws, updates) ==
    IF updates = <<>> THEN ws
    ELSE LET first_id == updates[1].id
             srcs == ws.sources
             start == range_start(srcs, first_id)
         IN IF start # 0
            THEN WidgetSources(
                    SubSeq(srcs, 1, start - 1) \o updates \o SubSeq(srcs, start, Len(srcs)),
                    ws.updated_images)
            ELSE IF srcs # <<>> /\ Last(srcs).id < first_id
                 THEN WidgetSources(srcs \o updates, ws.updated_images)
                 ELSE ws

\* units whose id has no run pushed at the end whatever the last id is
update_push_unfound(ws, updates) ==
    IF updates = <<>> THEN ws
    ELSE LET first_id == updates[1].id
             srcs == ws.sources
             start == range_start(srcs, first_id)
         IN IF start # 0
            THEN LET end == range_end(srcs, start, first_id)
                 IN WidgetSources(
                        SubSeq(srcs, 1, start - 1) \o updates \o SubSeq(srcs, end + 1, Len(srcs)),
                        ws.updated_images \o spliced_images(SubSeq(srcs, start, end)))
            ELSE WidgetSources(srcs \o updates, ws.updated_images)

\* WidgetSources::update
update(ws, updates) ==
    IF updates = <<>> THEN ws
    ELSE LET first_id == updates[1].id
             srcs == ws.sources
             start == range_start(srcs, first_id)
         IN IF start # 0
            THEN LET end == range_end(srcs, start, first_id)
                 IN WidgetSources(
                        SubSeq(srcs, 1, start - 1) \o updates \o SubSeq(srcs, end + 1, Len(srcs)),
                        ws.updated_images \o spliced_images(SubSeq(srcs, start, end)))
            ELSE IF srcs # <<>> /\ Last(srcs).id < first_id
                 THEN WidgetSources(srcs \o updates, ws.updated_images)
                 ELSE ws

\* the first Image of the key whatever its id
replace_live_index_any_id(srcs, id, url) ==
    IF \E i \in 1..Len(srcs) : IsImage(srcs[i]) /\ srcs[i].data.url = url
    THEN CHOOSE i \in 1..Len(srcs) :
            /\ IsImage(srcs[i]) /\ srcs[i].data.url = url
            /\ \A j \in 1..(i - 1) : ~(IsImage(srcs[j]) /\ srcs[j].data.url = url)
    ELSE 0

\* WidgetSources::replace returns the store after the call and the Option it returns.
replace_live_index(srcs, id, url) ==
    IF \E i \in 1..Len(srcs) : srcs[i].id >= id /\ IsImage(srcs[i]) /\ srcs[i].data.url = url
    THEN CHOOSE i \in 1..Len(srcs) :
            /\ srcs[i].id >= id /\ IsImage(srcs[i]) /\ srcs[i].data.url = url
            /\ \A j \in 1..(i - 1) : ~(srcs[j].id >= id /\ IsImage(srcs[j]) /\ srcs[j].data.url = url)
    ELSE 0

replace_cache_index(imgs, url) ==
    IF \E i \in 1..Len(imgs) : imgs[i][2] = url
    THEN CHOOSE i \in 1..Len(imgs) :
            /\ imgs[i][2] = url
            /\ \A j \in 1..(i - 1) : imgs[j][2] # url
    ELSE 0

\* the image taken out of the live list, no placeholder left in its place
replace_removing(ws, id, url) ==
    LET srcs == ws.sources
        imgs == ws.updated_images
        i == replace_live_index(srcs, id, url)
        c == replace_cache_index(imgs, url)
    IN IF i # 0
       THEN [ws |-> WidgetSources(SubSeq(srcs, 1, i - 1) \o SubSeq(srcs, i + 1, Len(srcs)), imgs),
             ret |-> Some(srcs[i])]
       ELSE IF c # 0
            THEN [ws |-> WidgetSources(srcs, SubSeq(imgs, 1, c - 1) \o SubSeq(imgs, c + 1, Len(imgs))),
                  ret |-> Some(WidgetSource(0, imgs[c][1], Image(imgs[c][2], imgs[c][3])))]
            ELSE [ws |-> ws, ret |-> None]

replace(ws, id, url) ==
    LET srcs == ws.sources
        imgs == ws.updated_images
        i == replace_live_index(srcs, id, url)
        c == replace_cache_index(imgs, url)
    IN IF i # 0
       THEN [ws |-> WidgetSources(
                        [srcs EXCEPT ![i] = WidgetSource(srcs[i].id, 1, ReplacingLine(url))],
                        imgs),
             ret |-> Some(srcs[i])]
       ELSE IF c # 0
            THEN [ws |-> WidgetSources(srcs, SubSeq(imgs, 1, c - 1) \o SubSeq(imgs, c + 1, Len(imgs))),
                  ret |-> Some(WidgetSource(0, imgs[c][1], Image(imgs[c][2], imgs[c][3])))]
            ELSE [ws |-> ws, ret |-> None]

\* WidgetSources::trim_last_source
position_of(srcs, last_source_id) ==
    IF \E i \in 1..Len(srcs) : srcs[i].id = last_source_id
    THEN CHOOSE i \in 1..Len(srcs) :
            /\ srcs[i].id = last_source_id
            /\ \A j \in 1..(i - 1) : srcs[j].id # last_source_id
    ELSE 0

\* one entry popped off the tail instead of truncating down to the id
trim_pop_once(ws, last_source_id) ==
    LET srcs == ws.sources
    IN IF ~IsSome(last_source_id) THEN WidgetSources(srcs, <<>>)
       ELSE IF srcs # <<>> /\ Last(srcs).id = Unwrap(last_source_id)
            THEN WidgetSources(srcs, <<>>)
            ELSE IF position_of(srcs, Unwrap(last_source_id)) # 0
                 THEN WidgetSources(SubSeq(srcs, 1, Len(srcs) - 1), <<>>)
                 ELSE WidgetSources(srcs, <<>>)

trim_last_source(ws, last_source_id) ==
    LET srcs == ws.sources
    IN IF ~IsSome(last_source_id) THEN WidgetSources(srcs, <<>>)
       ELSE IF srcs # <<>> /\ Last(srcs).id = Unwrap(last_source_id)
            THEN WidgetSources(srcs, <<>>)
            ELSE LET idx == position_of(srcs, Unwrap(last_source_id))
                 IN IF idx # 0
                    THEN WidgetSources(SubSeq(srcs, 1, idx), <<>>)
                    ELSE WidgetSources(srcs, <<>>)

(***************************************************************************)
(* Message protocol (src/main.rs): Cmd and Event                           *)
(***************************************************************************)
CmdParse(did, text) == [cmd |-> "Parse", document_id |-> did, text |-> text]
CmdUrlImage(did, id, url, text, title) ==
    [cmd |-> "UrlImage", document_id |-> did, id |-> id, url |-> url, text |-> text, title |-> title]
CmdHeader(did, id, tier, text) ==
    [cmd |-> "Header", document_id |-> did, id |-> id, tier |-> tier, text |-> text]

NewDocument(did) == [event |-> "NewDocument", document_id |-> did]
ParseDone(did, last_source_id) ==
    [event |-> "ParseDone", document_id |-> did, last_source_id |-> last_source_id]
Parsed(did, source) == [event |-> "Parsed", document_id |-> did, source |-> source]
ParseImage(did, id, url, text, title) ==
    [event |-> "ParseImage", document_id |-> did, id |-> id, url |-> url, text |-> text, title |-> title]
ParseHeader(did, id, tier, text) ==
    [event |-> "ParseHeader", document_id |-> did, id |-> id, tier |-> tier, text |-> text]
Update(did, updates) == [event |-> "Update", document_id |-> did, updates |-> updates]
FileChanged == [event |-> "FileChanged"]

(***************************************************************************)
(* Blocks (src/markdown/blocks.rs) and the documents the model reads.  A   *)
(* document text is represented by the blocks split_headers_and_images     *)
(* yields for it; a Markdown block carries the lines the skin wraps it to. *)
(***************************************************************************)
HeaderBlock(tier, text) == [block |-> "Header", tier |-> tier, text |-> text]
ImageBlock(alt, url) == [block |-> "Image", alt |-> alt, url |-> url]
MarkdownBlock(lines) == [block |-> "Markdown", lines |-> lines]

NixOS == "./assets/NixOS.png"
YouFried == "./assets/you_fried.png"

\* "This is a test markdown document. / ![image](./assets/NixOS.png) / Goodbye."
DocParse ==
    << MarkdownBlock(<<"This is a test markdown document.">>), ImageBlock("image", NixOS),
       MarkdownBlock(<<"Goodbye.">>) >>
\* the same with the image line moved up
DocMoved ==
    << ImageBlock("image", NixOS),
       MarkdownBlock(<<"This is a test markdown document.", "Goodbye.">>) >>
\* "![image](./assets/NixOS.png) / Goodbye. / ![image](./assets/NixOS.png)"
DocDuplicate ==
    << ImageBlock("image", NixOS), MarkdownBlock(<<"Goodbye.">>), ImageBlock("image", NixOS) >>
\* "# Hello / ![image](./assets/you_fried.png)"
DocHeader == << HeaderBlock(1, "Hello"), ImageBlock("image", YouFried) >>
\* "Goodbye."
DocShort == << MarkdownBlock(<<"Goodbye.">>) >>
\* a text of blank lines only: no block at all
DocBlank == << >>

\* "Goodbye. / ![image](./assets/NixOS.png) / ![image](./assets/you_fried.png)"
DocTwoImages ==
    << MarkdownBlock(<<"Goodbye.">>), ImageBlock("image", NixOS), ImageBlock("image", YouFried) >>

Docs == {DocParse, DocMoved, DocDuplicate, DocHeader, DocShort, DocBlank}

(***************************************************************************)
(* parse (src/markdown.rs): the events of one parse pass, ids in emission  *)
(* order, a blank line before a block that follows a Markdown or an Image. *)
(***************************************************************************)
\* links::capture_line: the links of a line; a line that is an address is one link
capture_line(line) ==
    IF line \in {"http://a.com", "http://b.com"} THEN << Link(line, 0, 11) >> ELSE <<>>

RECURSIVE parse_blocks(_, _, _, _, _)
parse_blocks(blocks, id, needs_space, did, text_size) ==
    IF blocks = <<>> THEN <<>>
    ELSE LET b == Head(blocks)
             space == IF needs_space
                      THEN << Parsed(did, WidgetSource(id, 1, Line("", <<>>))) >>
                      ELSE <<>>
             id1 == id + Len(space)
             events ==
                CASE b.block = "Header" ->
                        IF text_size
                        THEN << Parsed(did, WidgetSource(id1, 2, Header(b.text, b.tier))) >>
                        ELSE << ParseHeader(did, id1, b.tier, b.text) >>
                  [] b.block = "Image" ->
                        << ParseImage(did, id1, b.url, b.alt, "") >>
                  [] b.block = "Markdown" ->
                        [k \in 1..Len(b.lines) |->
                            Parsed(did, WidgetSource(id1 + k - 1, 1,
                                                     Line(b.lines[k], capture_line(b.lines[k]))))]
         IN space \o events
              \o parse_blocks(Tail(blocks), id1 + Len(events), b.block # "Header", did, text_size)

\* the first unit takes the id 1
parse_from_one(text, did, text_size) == parse_blocks(text, 1, FALSE, did, text_size)

\* an image block is sent as a unit that holds the image
parse_images_inline(text, did, text_size) ==
    LET events == parse_blocks(text, 0, FALSE, did, text_size)
    IN [i \in 1..Len(events) |->
          IF events[i].event = "ParseImage"
          THEN Parsed(did, WidgetSource(events[i].id, 1, Image(events[i].url, <<>>)))
          ELSE events[i]]

parse(text, did, text_size) == parse_blocks(text, 0, FALSE, did, text_size)

(***************************************************************************)
(* Worker: what it sends for a Parse command, and what a task sends back.  *)
(***************************************************************************)
HEADER_ROW_COUNT == 2

worker_parse(did, text, text_size) ==
    LET events == parse(text, did, text_size)
    IN << NewDocument(did) >> \o events
         \o << ParseDone(did, IF events = <<>> THEN None ELSE Some(Len(events) - 1)) >>

\* The opaque protocol handle of a decode: identified by the command that asked for it.
Proto(task, n) == <<task.document_id.id, task.document_id.reload_id, task.id, n>>

\* Rows the rendering collaborator reports for an image.
image_height(url) == IF url = NixOS THEN 4 ELSE 3

\* image_source succeeded / failed
url_image_results(task) ==
    { << WidgetSource(task.id, image_height(task.url), Image(task.url, Proto(task, 1))) >>,
      << image_unknown(task.id, task.url, task.text) >> }

\* header_images + header_sources: one Image per shaped line of the header text
header_results(task) ==
    { << WidgetSource(task.id, HEADER_ROW_COUNT, Image(task.text, Proto(task, 1))) >>,
      << WidgetSource(task.id, HEADER_ROW_COUNT, Image(task.text \o " 1/2", Proto(task, 1))),
         WidgetSource(task.id, HEADER_ROW_COUNT, Image(task.text \o " 2/2", Proto(task, 2))) >>,
      << image_unknown(task.id, task.text, "header") >> }

task_results(task) ==
    IF task.cmd = "UrlImage" THEN url_image_results(task) ELSE header_results(task)

(***************************************************************************)
(* Model::process_events: the body of the drain loop for one event.        *)
(* Yields the new document id, the new store and the commands sent.        *)
(***************************************************************************)
Outcome(did, ws, cmds) == [document_id |-> did, ws |-> ws, cmds |-> cmds]

is_stale(did, event) == ~is_same_document(did, event.document_id)

process_event(did, ws, event) ==
    CASE event.event = "NewDocument" -> Outcome(event.document_id, ws, <<>>)
      [] event.event = "ParseDone" ->
            IF is_stale(did, event) THEN Outcome(did, ws, <<>>)
            ELSE Outcome(did, trim_last_source(ws, event.last_source_id), <<>>)
      [] event.event = "Parsed" ->
            IF is_stale(did, event) THEN Outcome(did, ws, <<>>)
            ELSE IF is_first_load(did)
                 THEN Outcome(did, push(ws, event.source), <<>>)
                 ELSE Outcome(did, update(ws, << event.source >>), <<>>)
      [] event.event = "Update" ->
            IF is_stale(did, event) THEN Outcome(did, ws, <<>>)
            ELSE Outcome(did, update(ws, event.updates), <<>>)
      [] event.event = "ParseImage" ->
            IF is_stale(did, event) THEN Outcome(did, ws, <<>>)
            ELSE LET r == replace(ws, event.id, event.url)
                     placeholder == WidgetSource(event.id, 1, LoadingLine(event.url))
                 IN IF IsSome(r.ret)
                    THEN Outcome(did,
                                 update(r.ws, << [Unwrap(r.ret) EXCEPT !.id = event.id] >>),
                                 <<>>)
                    ELSE Outcome(did,
                                 IF is_first_load(did)
                                 THEN push(r.ws, placeholder)
                                 ELSE update(r.ws, << placeholder >>),
                                 << CmdUrlImage(event.document_id, event.id, event.url,
                                                event.text, event.title) >>)
      [] event.event = "ParseHeader" ->
            IF is_stale(did, event) THEN Outcome(did, ws, <<>>)
            ELSE LET placeholder == WidgetSource(event.id, 2, HeaderLine(event.tier, event.text))
                 IN Outcome(did,
                            IF is_first_load(did)
                            THEN push(ws, placeholder)
                            ELSE update(ws, << placeholder >>),
                            << CmdHeader(event.document_id, event.id, event.tier, event.text) >>)
      [] event.event = "FileChanged" -> Outcome(did, ws, <<>>)

(***************************************************************************)
(* The program: main, the Coordinator's loop, the watcher and the Worker.  *)
(***************************************************************************)
NoCall == [op |-> "none"]

\* run at the top of its loop: nothing drained, nothing read, no poll yet
CycleStart == [at |-> "drain", had_events |-> FALSE, had_input |-> FALSE, timeout |-> <<>>]

NoPass == [texts |-> <<>>, ids |-> <<>>, n |-> 0, start |-> WidgetSourcesDefault]
Store == WidgetSources(sources, updated_images)

Size(width, height) == [width |-> width, height |-> height]

\* Cursor (src/cursor.rs): None | Links(pointer) | Search(state, Option<pointer>)
CursorPointer(id, index) == [id |-> id, index |-> index]
CursorNone == [kind |-> "None"]
CursorLinks(pointer) == [kind |-> "Links", pointer |-> pointer]
CursorSearch(state, pointer) == [kind |-> "Search", state |-> state, pointer |-> pointer]
SearchState(needle, accepted) == [needle |-> needle, accepted |-> accepted]

\* Cursor::pointer
pointer_of(c) ==
    CASE c.kind = "None" -> None
      [] c.kind = "Links" -> Some(c.pointer)
      [] c.kind = "Search" -> c.pointer

\* the terminal of the tests: setup() and test_model()
TestSize == Size(80, 20)

\* Model::new, with both channels empty and the Worker idle
ModelNew(size) ==
    /\ document_id = DocumentIdDefault
    /\ sources = <<>>
    /\ updated_images = <<>>
    /\ scroll = 0
    /\ scroll_by_mul = 0
    /\ cursor = CursorNone
    /\ screen_size = size
    /\ term_size = size
    /\ cmd_chan = <<>>
    /\ event_chan = <<>>
    /\ worker_out = <<>>
    /\ tasks = <<>>
    /\ reloads = 0
    /\ call = NoCall
    /\ pass = NoPass

\* the text main or Model::reload reads now, and the reloads the session has
FileTexts == session[Len(pass.texts) + 1]
SessionReloads == Len(session) - 1

Init ==
    /\ main_pc = "new"
    /\ has_text_size_protocol \in BOOLEAN
    /\ ModelNew(TestSize)
    /\ session = [i \in 1..(MaxReloads + 1) |-> Docs]
    /\ cycle = CycleStart
    /\ worker_pc = "running"

\* main: model.open(terminal_size, text)
Open ==
    /\ main_pc = "new"
    /\ \E text \in FileTexts :
          /\ cmd_chan' = Append(cmd_chan, CmdParse(open(document_id), text))
          /\ pass' = [pass EXCEPT !.texts = Append(@, text),
                                  !.ids = Append(@, open(document_id))]
    /\ main_pc' = "run"
    /\ UNCHANGED <<has_text_size_protocol, document_id, sources, updated_images,
                   event_chan, worker_out, tasks, reloads, call, view, session, cycle, worker_pc>>

\* run: key 'r' or a resize -> Model::reload -> reparse -> parse
Reload ==
    /\ main_pc = "run"
    /\ reloads < SessionReloads
    /\ \E text \in FileTexts :
          /\ cmd_chan' = Append(cmd_chan, CmdParse(reload(document_id), text))
          /\ pass' = [pass EXCEPT !.texts = Append(@, text),
                                  !.ids = Append(@, reload(document_id))]
    /\ reloads' = reloads + 1
    /\ UNCHANGED <<main_pc, has_text_size_protocol, document_id, sources, updated_images,
                   event_chan, worker_out, tasks, call, view, session, cycle, worker_pc>>

\* the file watcher sends a debounced FileChanged
Watch ==
    /\ main_pc = "run"
    /\ reloads < SessionReloads
    /\ event_chan' = Append(event_chan, FileChanged)
    /\ reloads' = reloads + 1
    /\ UNCHANGED <<main_pc, has_text_size_protocol, document_id, sources, updated_images,
                   cmd_chan, worker_out, tasks, call, pass, view, session, cycle, worker_pc>>

\* Model::process_events, one iteration of the drain loop.  call records the
\* event taken, the state it was applied to and the commands sent for it.
Processed ==
    /\ event_chan # <<>>
    /\ LET event == Head(event_chan)
           out == process_event(document_id, Store, event)
       IN /\ document_id' = out.document_id
          /\ sources' = out.ws.sources
          /\ updated_images' = out.ws.updated_images
          /\ IF event.event = "FileChanged"
             THEN \E text \in FileTexts :
                     /\ cmd_chan' = Append(cmd_chan, CmdParse(reload(document_id), text))
                     /\ pass' = [pass EXCEPT !.texts = Append(@, text),
                                             !.ids = Append(@, reload(document_id))]
             ELSE /\ cmd_chan' = cmd_chan \o out.cmds
                  /\ pass' = IF event.event = "NewDocument"
                             THEN [pass EXCEPT !.n = @ + 1, !.start = Store]
                             ELSE pass
          /\ call' = [op |-> "process_events", event |-> event, document_id |-> document_id,
                      pre |-> Store, sent |-> out.cmds, scroll |-> scroll]
    /\ event_chan' = Tail(event_chan)
    /\ UNCHANGED <<has_text_size_protocol, worker_out, tasks, reloads, view, session>>

ProcessEvent == Processed /\ UNCHANGED <<main_pc, cycle, worker_pc>>

\* the Worker receives the next command once it has finished the Parse it is handling
WorkerRecv ==
    /\ worker_pc = "running"
    /\ worker_out = <<>>
    /\ cmd_chan # <<>>
    /\ LET c == Head(cmd_chan)
       IN IF c.cmd = "Parse"
          THEN /\ worker_out' = worker_parse(c.document_id, c.text, has_text_size_protocol)
               /\ tasks' = tasks
          ELSE /\ tasks' = Append(tasks, c)
               /\ worker_out' = worker_out
    /\ cmd_chan' = Tail(cmd_chan)
    /\ UNCHANGED <<main_pc, has_text_size_protocol, document_id, sources, updated_images,
                   event_chan, reloads, call, pass, view, session, cycle, worker_pc>>

\* the Worker sends the next event of the Parse it is handling
WorkerSend ==
    /\ worker_pc = "running"
    /\ worker_out # <<>>
    /\ event_chan' = Append(event_chan, Head(worker_out))
    /\ worker_out' = Tail(worker_out)
    /\ UNCHANGED <<main_pc, has_text_size_protocol, document_id, sources, updated_images,
                   cmd_chan, tasks, reloads, call, pass, view, session, cycle, worker_pc>>

\* a spawned task completes and sends its Update
TaskDone ==
    /\ worker_pc = "running"
    /\ \E i \in 1..Len(tasks) :
          /\ \E updates \in task_results(tasks[i]) :
                event_chan' = Append(event_chan, Update(tasks[i].document_id, updates))
          /\ tasks' = SubSeq(tasks, 1, i - 1) \o SubSeq(tasks, i + 1, Len(tasks))
    /\ UNCHANGED <<main_pc, has_text_size_protocol, document_id, sources, updated_images,
                   cmd_chan, worker_out, reloads, call, pass, view, session, cycle, worker_pc>>

Next == Open \/ Reload \/ Watch \/ ProcessEvent \/ WorkerRecv \/ WorkerSend \/ TaskDone

Spec == Init /\ [][Next]_vars

\* a session of two reloads: the file holds a short text, then a text with
\* two images, then the short text again
QuickInit ==
    /\ main_pc = "new"
    /\ has_text_size_protocol = FALSE
    /\ ModelNew(TestSize)
    /\ session = << {DocShort}, {DocTwoImages}, {DocShort} >>
    /\ cycle = CycleStart
    /\ worker_pc = "running"

QuickSpec == QuickInit /\ [][Next]_vars

\* run calls process_events on every turn of its loop, the Worker's thread
\* keeps receiving and sending, and every spawned task runs to completion
FairSpec ==
    /\ Spec
    /\ WF_vars(ProcessEvent)
    /\ WF_vars(WorkerRecv)
    /\ WF_vars(WorkerSend)
    /\ WF_vars(TaskDone)

(***************************************************************************)
(* Store-level harness: one WidgetSources call on any store the data model *)
(* allows (ids non-decreasing), with any argument.  call records the call, *)
(* the store it was made on and what it returned.                          *)
(***************************************************************************)
NonDecreasing(srcs) == \A i \in 1..(Len(srcs) - 1) : srcs[i].id <= srcs[i + 1].id

Ids == 0..MaxId

Payloads ==
    { [height |-> 1, data |-> Line("Goodbye.", <<>>)],
      [height |-> 4, data |-> Image(NixOS, <<1, 0, 0, 1>>)],
      [height |-> 3, data |-> Image(YouFried, <<1, 0, 1, 1>>)] }

Units == { WidgetSource(id, p.height, p.data) : id \in Ids, p \in Payloads }

SeqsUpTo(S, n) == UNION { [1..k -> S] : k \in 0..n }

Stores == { srcs \in SeqsUpTo(Units, MaxLen) : NonDecreasing(srcs) }

Caches == { <<>> } \cup { << <<p.height, p.data.url, p.data.proto>> >> : p \in { q \in Payloads : q.data.kind = "Image" } }

\* the lists update is called with: units that share one id, which may be past the last id
UpdateLists ==
    { [i \in 1..Len(ps) |-> WidgetSource(id, ps[i].height, ps[i].data)] :
        id \in 0..(MaxId + 1), ps \in SeqsUpTo(Payloads, 2) }

StoreInit ==
    /\ main_pc = "store"
    /\ has_text_size_protocol = FALSE
    /\ document_id = DocumentIdDefault
    /\ sources \in Stores
    /\ updated_images \in Caches
    /\ scroll = 0
    /\ scroll_by_mul = 0
    /\ cursor = CursorNone
    /\ screen_size = TestSize
    /\ term_size = TestSize
    /\ cmd_chan = <<>>
    /\ event_chan = <<>>
    /\ worker_out = <<>>
    /\ tasks = <<>>
    /\ reloads = 0
    /\ call = NoCall
    /\ pass = NoPass
    /\ session = <<>>
    /\ cycle = CycleStart
    /\ worker_pc = "running"

StoreFrame == UNCHANGED <<main_pc, has_text_size_protocol, document_id, cmd_chan, event_chan,
                          worker_out, tasks, reloads, pass, view, session, cycle, worker_pc>>

Becomes(ws) == sources' = ws.sources /\ updated_images' = ws.updated_images

CallUpdate ==
    /\ main_pc = "store" /\ call = NoCall
    /\ \E updates \in UpdateLists :
          /\ Becomes(update(Store, updates))
          /\ call' = [op |-> "update", updates |-> updates, pre |-> Store, n |-> 1]
    /\ StoreFrame

CallReplace ==
    /\ main_pc = "store" /\ call = NoCall
    /\ \E id \in Ids, url \in {NixOS, YouFried} :
          /\ Becomes(replace(Store, id, url).ws)
          /\ call' = [op |-> "replace", id |-> id, url |-> url, pre |-> Store,
                      ret |-> replace(Store, id, url).ret, n |-> 1]
    /\ StoreFrame

CallTrim ==
    /\ main_pc = "store" /\ call = NoCall
    /\ \E x \in {None} \cup { Some(id) : id \in 0..(MaxId + 1) } :
          /\ Becomes(trim_last_source(Store, x))
          /\ call' = [op |-> "trim_last_source", last_source_id |-> x, pre |-> Store,
                      once |-> trim_last_source(Store, x), n |-> 1]
    /\ StoreFrame

\* the same trim_last_source call made a second time
CallTrimAgain ==
    /\ main_pc = "store" /\ call.op = "trim_last_source" /\ call.n = 1
    /\ Becomes(trim_last_source(Store, call.last_source_id))
    /\ call' = [call EXCEPT !.n = 2]
    /\ StoreFrame

StoreNext == CallUpdate \/ CallReplace \/ CallTrim \/ CallTrimAgain

StoreSpec == StoreInit /\ [][StoreNext]_vars

(***************************************************************************)
(* Generation gating                                                       *)
(***************************************************************************)
GenerationTagged == {"ParseDone", "Parsed", "Update", "ParseImage", "ParseHeader"}

\* The last event taken by process_events was tagged with a generation.
TookTagged == call.op = "process_events" /\ call.event.event \in GenerationTagged

\* ... of the current document, but of an earlier revision than the one applied.
TookEarlierRevision ==
    /\ TookTagged
    /\ call.event.document_id.id = call.document_id.id
    /\ call.event.document_id.reload_id < call.document_id.reload_id

\* ... of another document than the current one.
TookOtherDocument ==
    /\ TookTagged
    /\ call.event.document_id.id # call.document_id.id

\* C1: an Update of an earlier revision of the current document leaves the
\* live list as it was.
C1_StaleUpdateInert ==
    (TookEarlierRevision /\ call.event.event = "Update") => sources = call.pre.sources

\* C2: a generation-tagged event that is not of the same document as the
\* Model's current document id is discarded: live list and side-cache are
\* the same before and after it and no command is sent.
C2_StalenessGating ==
    TookOtherDocument => (Store = call.pre /\ call.sent = <<>>)

\* an Update of another document was taken that would have changed the store
C2_Witness ==
    /\ TookOtherDocument
    /\ call.event.event = "Update"
    /\ update(call.pre, call.event.updates) # call.pre

(***************************************************************************)
(* Order of the live list                                                  *)
(***************************************************************************)
\* C3: the unit ids of the live list are in non-decreasing order.
C3_IdsNonDecreasing == NonDecreasing(sources)

\* a reloaded document whose list holds an id-run of two entries and more after it
C3_Witness ==
    /\ ~is_first_load(document_id)
    /\ \E i \in 1..(Len(sources) - 2) :
          /\ sources[i].id = sources[i + 1].id
          /\ sources[i + 1].id < sources[i + 2].id

(***************************************************************************)
(* update, trim_last_source                                                *)
(***************************************************************************)
Before(srcs, k) == SelectSeq(srcs, LAMBDA u : u.id < k)
After(srcs, k) == SelectSeq(srcs, LAMBDA u : u.id > k)
UpTo(srcs, k) == SelectSeq(srcs, LAMBDA u : u.id <= k)
HasId(srcs, k) == \E i \in 1..Len(srcs) : srcs[i].id = k
RunLen(srcs, k) == Cardinality({ i \in 1..Len(srcs) : srcs[i].id = k })

\* C4: update with a non-empty list of units tagged k, on a store that holds a
\* run of k, yields the entries before the run, then the list, then the
\* entries after the run.
C4_IdRunReplacement ==
    (call.op = "update" /\ call.updates # <<>> /\ HasId(call.pre.sources, call.updates[1].id))
        => sources = Before(call.pre.sources, call.updates[1].id)
                        \o call.updates
                        \o After(call.pre.sources, call.updates[1].id)

\* a run of two entries between other entries is replaced by one unit of another kind
C4_Witness ==
    /\ call.op = "update"
    /\ Len(call.updates) = 1
    /\ LET k == call.updates[1].id
           pre == call.pre.sources
       IN /\ RunLen(pre, k) = 2
          /\ Before(pre, k) # <<>>
          /\ After(pre, k) # <<>>
          /\ \A i \in 1..Len(pre) : pre[i].id = k => pre[i].data.kind # call.updates[1].data.kind
          /\ Len(sources) = Len(pre) - 1

\* the ParseDone of the current document that process_events took last named an id
\* the live list held
TookParseDoneOf(k) ==
    /\ call.op = "process_events"
    /\ call.event.event = "ParseDone"
    /\ is_same_document(call.document_id, call.event.document_id)
    /\ call.event.last_source_id = Some(k)
    /\ HasId(call.pre.sources, k)

\* C9: trim_last_source(Some(x)), when some entry has id x, keeps every entry
\* up to and including the last entry with id x and removes every entry after.
C9_TrimKeepsRun ==
    call.op = "process_events" =>
        \A k \in 0..Len(call.pre.sources) :
            TookParseDoneOf(k) => sources = UpTo(call.pre.sources, k)

\* C10: calling trim_last_source(x) twice leaves the same live list and
\* side-cache as calling it once.
C10_TrimIdempotent ==
    (call.op = "trim_last_source" /\ call.n = 2) => Store = call.once

\* the first of the two calls removed entries and emptied a side-cache that held an image
C10_Witness ==
    /\ call.op = "trim_last_source" /\ call.n = 2
    /\ Len(call.once.sources) < Len(call.pre.sources)
    /\ call.pre.updated_images # <<>>
    /\ IsSome(call.last_source_id)

(***************************************************************************)
(* Parse passes                                                            *)
(***************************************************************************)
\* the text of the pass whose NewDocument was applied last, and its events
CurrentText == pass.texts[pass.n]
CurrentEvents == parse(CurrentText, document_id, has_text_size_protocol)
ImageEvents == { e \in { CurrentEvents[i] : i \in 1..Len(CurrentEvents) } : e.event = "ParseImage" }

\* process_events took last an event of this kind tagged with the Model's own DocumentId
TookOwn(kind) ==
    /\ call.op = "process_events"
    /\ call.event.event = kind
    /\ call.event.document_id = call.document_id

\* ... during the first load of the document main opened
FirstLoad == call.document_id = open(DocumentIdDefault)

UnitsOf(srcs, k) == SelectSeq(srcs, LAMBDA u : u.id = k)
Others(srcs, k) == SelectSeq(srcs, LAMBDA u : u.id # k)

\* the text has one image line, between two text blocks
OneImageBetweenText(text) ==
    /\ Cardinality({ i \in 1..Len(text) : text[i].block = "Image" }) = 1
    /\ \E i \in 2..(Len(text) - 1) :
          /\ text[i].block = "Image"
          /\ text[i - 1].block = "Markdown"
          /\ text[i + 1].block = "Markdown"

\* C7: on the first load, when ParseDone has been applied every image line of
\* the text has a one-row Loading placeholder at its unit id; when the Update
\* carrying the decoded image of such a line is applied, the placeholder is
\* replaced by exactly one Image unit of the reported height and the units of
\* every other id are as they were.
C7_FirstLoad ==
    /\ (TookOwn("ParseDone") /\ FirstLoad)
          => \A e \in ImageEvents :
                UnitsOf(sources, e.id) = << WidgetSource(e.id, 1, LoadingLine(e.url)) >>
    /\ (TookOwn("Update") /\ FirstLoad)
          => \A e \in ImageEvents :
                (/\ Len(call.event.updates) = 1
                 /\ call.event.updates[1].id = e.id
                 /\ IsImage(call.event.updates[1])
                 /\ call.event.updates[1].data.url = e.url)
                => /\ UnitsOf(call.pre.sources, e.id)
                         = << WidgetSource(e.id, 1, LoadingLine(e.url)) >>
                   /\ UnitsOf(sources, e.id) = call.event.updates
                   /\ UnitsOf(sources, e.id)[1].height = image_height(e.url)
                   /\ Others(sources, e.id) = Others(call.pre.sources, e.id)
                   /\ Len(sources) = Len(call.pre.sources)

\* the image between the two text lines has been decoded and put in place
C7_Witness ==
    /\ TookOwn("Update") /\ FirstLoad
    /\ OneImageBetweenText(CurrentText)
    /\ \E e \in ImageEvents :
          /\ call.event.updates[1].id = e.id
          /\ IsImage(call.event.updates[1])
          /\ UnitsOf(sources, e.id) = call.event.updates
          /\ Before(sources, e.id) # <<>>
          /\ After(sources, e.id) # <<>>

\* a decoded Image of url is in the live list
HoldsImage(srcs, url) == \E i \in 1..Len(srcs) : IsImage(srcs[i]) /\ srcs[i].data.url = url

\* the ParseImage taken last is the second reference of the text to its url
TookSecondReference ==
    /\ TookOwn("ParseImage")
    /\ \E e \in ImageEvents : e.url = call.event.url /\ e.id < call.event.id

\* C6: when the text references one image url at two unit ids and a decoded
\* Image of that url is already in the store (it was when the pass began and
\* still is), processing the second reference gets an image from replace and
\* sends no UrlImage command.
C6_DedupSecondReference ==
    (/\ TookSecondReference
     /\ HoldsImage(pass.start.sources, call.event.url)
     /\ HoldsImage(call.pre.sources, call.event.url))
        => /\ IsSome(replace(call.pre, call.event.id, call.event.url).ret)
           /\ call.sent = <<>>

(***************************************************************************)
(* Reparse                                                                 *)
(***************************************************************************)
\* the decoded Images of url a live list holds
ImagesOf(srcs, url) == { srcs[i] : i \in { j \in 1..Len(srcs) : IsImage(srcs[j]) /\ srcs[j].data.url = url } }

\* the image lines of the current text whose image was decoded when the pass
\* began, at another unit id than the line has now; the text has no second
\* line for that url
MovedImages ==
    { e \in ImageEvents :
        /\ \A o \in ImageEvents : o.url = e.url => o = e
        /\ ImagesOf(pass.start.sources, e.url) # {}
        /\ \A u \in ImagesOf(pass.start.sources, e.url) : u.id # e.id }

\* process_events took last an event of a reparse, tagged with the Model's own DocumentId
TookOwnReparse(kind) == TookOwn(kind) /\ ~is_first_load(call.document_id)

\* C5: in a reparse no UrlImage command is sent for an image line whose
\* decoded image was in the store at another unit id, and when the ParseDone
\* of the reparse has been applied the store holds that Image at the line's
\* unit id, with the units in the block order of the new text.
C5_ReparsePreservesImage ==
    /\ TookOwnReparse("ParseImage")
          => \A e \in MovedImages : call.event.id = e.id => call.sent = <<>>
    /\ TookOwnReparse("ParseDone")
          => \A e \in MovedImages :
                /\ \E u \in ImagesOf(pass.start.sources, e.url) :
                      UnitsOf(sources, e.id) = << [u EXCEPT !.id = e.id] >>
                /\ Len(sources) = Len(CurrentEvents)
                /\ \A i \in 1..Len(CurrentEvents) :
                      /\ sources[i].id = i - 1
                      /\ CurrentEvents[i].event = "Parsed"
                            => sources[i] = CurrentEvents[i].source

(***************************************************************************)
(* Placeholders                                                            *)
(***************************************************************************)
\* the unit ids a text of Docs gives out
UnitIds == 0..4

\* a Loading placeholder or a pending header placeholder
IsPlaceholder(u) ==
    /\ u.data.kind = "Line"
    /\ \/ \E url \in {NixOS, YouFried} : u.data = LoadingLine(url)
       \/ u.data = HeaderLine(1, "Hello")

PlaceholderAt(k) == \E i \in 1..Len(sources) : sources[i].id = k /\ IsPlaceholder(sources[i])

FetchedAt(k) ==
    \E i \in 1..Len(sources) :
        sources[i].id = k /\ sources[i].data.kind \in {"Image", "BrokenImage"}

\* the last reload has been made and its parse pass has been applied: what is
\* still under way is fetches and their Updates
LastReloadApplied ==
    /\ main_pc = "run"
    /\ reloads = SessionReloads
    /\ \A i \in 1..Len(cmd_chan) : cmd_chan[i].cmd # "Parse"
    /\ worker_out = <<>>
    /\ \A i \in 1..Len(event_chan) : event_chan[i].event = "Update"
    /\ pass.n = Len(pass.texts)

\* C8: after the last reload every Loading placeholder and every pending
\* header placeholder in the store is eventually replaced by an Image or a
\* BrokenImage unit with the same id.
C8_NoUnitDropped ==
    \A k \in UnitIds : (LastReloadApplied /\ PlaceholderAt(k)) ~> FetchedAt(k)

(***************************************************************************)
(* update: ids without a run                                               *)
(***************************************************************************)
\* update was called with a non-empty list whose id no entry of the live list has
UpdateUnfound ==
    /\ call.op = "update"
    /\ call.updates # <<>>
    /\ ~HasId(call.pre.sources, call.updates[1].id)

\* C11: update with units of an id that no entry has and that is greater than
\* every id of the live list, the empty live list included, appends the units
\* in their order and changes nothing else.
C11_AppendPastTail ==
    (/\ UpdateUnfound
     /\ \A i \in 1..Len(call.pre.sources) : call.pre.sources[i].id < call.updates[1].id)
        => Store = WidgetSources(call.pre.sources \o call.updates, call.pre.updated_images)

\* C12: update with an empty list, and update with an id that has no run while
\* some entry has a greater id, leave the live list and the side-cache as
\* they were.
C12_AnomalyNoOp ==
    /\ (call.op = "update" /\ call.updates = <<>>) => Store = call.pre
    /\ (/\ UpdateUnfound
        /\ \E i \in 1..Len(call.pre.sources) : call.pre.sources[i].id >= call.updates[1].id)
          => Store = call.pre

\* update was called with two units of an id that lies between the ids of a
\* store that holds images, with a non-empty side-cache
C12_Witness ==
    /\ UpdateUnfound
    /\ Len(call.updates) = 2
    /\ \E i \in 1..Len(call.pre.sources) : call.pre.sources[i].id > call.updates[1].id
    /\ \E i \in 1..Len(call.pre.sources) : call.pre.sources[i].id < call.updates[1].id
    /\ call.pre.updated_images # <<>>
    /\ Store = call.pre

(***************************************************************************)
(* Order of Updates                                                        *)
(***************************************************************************)
\* the next two events process_events will take are Updates tagged with the
\* Model's DocumentId that address different unit ids
TwoUpdatesNext ==
    /\ Len(event_chan) >= 2
    /\ \A i \in 1..2 :
          /\ event_chan[i].event = "Update"
          /\ event_chan[i].document_id = document_id
          /\ event_chan[i].updates # <<>>
    /\ event_chan[1].updates[1].id # event_chan[2].updates[1].id

\* C13: two Updates of the current generation that address different unit
\* ids yield the same live list in either order of application.
C13_OrderTolerance ==
    TwoUpdatesNext
        => update(update(Store, event_chan[1].updates), event_chan[2].updates).sources
            = update(update(Store, event_chan[2].updates), event_chan[1].updates).sources

(***************************************************************************)
(* Cursor/Search Navigator (src/widget_sources.rs): extras, the flattened  *)
(* list of matches, find_first_cursor and find_next_cursor.  Indexes of    *)
(* CursorPointer count from 0 as in the source.                            *)
(***************************************************************************)
\* FindTarget, FindMode
FindTargets == {"Link", "Search"}
FindModes == {"Next", "Prev"}

\* FindTarget::matches
matches(target, extra) ==
    \/ target = "Link" /\ extra.kind = "Link"
    \/ target = "Search" /\ extra.kind = "SearchMatch"

Reverse(s) == [i \in 1..Len(s) |-> s[Len(s) + 1 - i]]

RECURSIVE Flatten(_)
Flatten(ss) == IF ss = <<>> THEN <<>> ELSE Head(ss) \o Flatten(Tail(ss))

\* Model::total_lines: the sum of the heights
RECURSIVE total_lines(_)
total_lines(srcs) == IF srcs = <<>> THEN 0 ELSE Head(srcs).height + total_lines(Tail(srcs))

\* the closure locate of find_first_cursor: the first matching extra of a Line
locate(source, target) ==
    IF /\ source.data.kind = "Line"
       /\ \E i \in 1..Len(source.data.extras) : matches(target, source.data.extras[i])
    THEN LET i == CHOOSE i \in 1..Len(source.data.extras) :
                      /\ matches(target, source.data.extras[i])
                      /\ \A j \in 1..(i - 1) : ~matches(target, source.data.extras[j])
         IN Some(CursorPointer(source.id, i - 1))
    ELSE None

\* the loop of find_first_cursor from entry i on, with its two accumulators
RECURSIVE find_first_loop(_, _, _, _, _, _)
find_first_loop(srcs, target, scroll_row, i, first, offset_acc) ==
    IF i > Len(srcs) THEN first
    ELSE LET acc == offset_acc + srcs[i].height
         IN IF acc < scroll_row + 1
            THEN find_first_loop(srcs, target, scroll_row, i + 1,
                                 IF first = None THEN locate(srcs[i], target) ELSE first, acc)
            ELSE IF locate(srcs[i], target) # None
                 THEN locate(srcs[i], target)
                 ELSE find_first_loop(srcs, target, scroll_row, i + 1, first, acc)

\* find_first_cursor that ignores the scroll row
find_first_cursor_from_top(srcs, target, scroll_row) ==
    find_first_loop(srcs, target, 0, 1, None, 0)

find_first_cursor(srcs, target, scroll_row) ==
    find_first_loop(srcs, target, scroll_row, 1, None, 0)

\* line_extras_to_cursor_pointers: the matching extras of one entry, in the
\* order of the mode
line_extras_to_cursor_pointers(source, mode, target) ==
    IF source.data.kind = "Line"
    THEN LET extras == source.data.extras
             hits == SelectSeq([i \in 1..Len(extras) |-> i],
                               LAMBDA i : matches(target, extras[i]))
             ptrs == [k \in 1..Len(hits) |-> CursorPointer(source.id, hits[k] - 1)]
         IN IF mode = "Next" THEN ptrs ELSE Reverse(ptrs)
    ELSE <<>>

\* flatten_sources: the iterator collected into a list
flatten_sources(srcs, mode, target) ==
    LET iter == IF mode = "Next" THEN srcs ELSE Reverse(srcs)
    IN Flatten([i \in 1..Len(iter) |-> line_extras_to_cursor_pointers(iter[i], mode, target)])

\* Iterator::position, counted from 0
position(s, x) ==
    IF \E i \in 1..Len(s) : s[i] = x
    THEN Some((CHOOSE i \in 1..Len(s) : s[i] = x /\ \A j \in 1..(i - 1) : s[j] # x) - 1)
    ELSE None

\* 2^n modulo m
RECURSIVE Pow2Mod(_, _)
Pow2Mod(n, m) == IF n = 0 THEN 1 % m ELSE (2 * Pow2Mod(n - 1, m)) % m

\* an index that stops at the last match instead of wrapping
step_index_saturating(curr_pos, steps, total) ==
    IF curr_pos + steps >= total THEN total - 1 ELSE curr_pos + steps

\* (curr_pos + steps as usize) % total on a 64-bit target: a negative steps is
\* sign-extended, and the sum wraps around 2^64
step_index(curr_pos, steps, total) ==
    IF curr_pos + steps >= 0
    THEN (curr_pos + steps) % total
    ELSE (Pow2Mod(64, total) + ((curr_pos + steps) % total)) % total

\* find_next_cursor that falls back to the first match in document order in
\* both modes
find_next_cursor_forward(srcs, current, mode, target, steps) ==
    LET iter == flatten_sources(srcs, mode, target)
        fwd == flatten_sources(srcs, "Next", target)
        curr_pos == position(iter, current)
    IN IF curr_pos = None
       THEN IF fwd = <<>> THEN None ELSE Some(fwd[1])
       ELSE LET index == step_index(Unwrap(curr_pos), steps, Len(iter))
            IN IF index = Unwrap(curr_pos) THEN Some(current) ELSE Some(iter[index + 1])

find_next_cursor(srcs, current, mode, target, steps) ==
    LET iter == flatten_sources(srcs, mode, target)
        curr_pos == position(iter, current)
    IN IF curr_pos = None
       THEN IF iter = <<>> THEN None ELSE Some(iter[1])
       ELSE LET index == step_index(Unwrap(curr_pos), steps, Len(iter))
            IN IF index = Unwrap(curr_pos) THEN Some(current) ELSE Some(iter[index + 1])

(***************************************************************************)
(* Navigator harness: find_first_cursor, or a walk of single steps of      *)
(* find_next_cursor, on any store the data model allows: ids               *)
(* non-decreasing, id-runs that may hold several text lines.  A walk goes  *)
(* as many steps as the store has matches in one mode, then as many in the *)
(* opposite mode; call records the pointers it returned.                   *)
(***************************************************************************)
NavLen == 3
NavId == 1
NavScroll == 4

ALink == Link("http://a.com", 0, 11)
BLink == Link("http://b.com", 12, 21)
AMatch == SearchMatch(0, 4, "http")

NavPayloads ==
    { [height |-> 1, data |-> Line("text", <<>>)],
      [height |-> 2, data |-> Header("Hello", 1)],
      [height |-> 1, data |-> Line("http://a.com", << ALink >>)],
      [height |-> 2, data |-> Line("# http://a.com", << AMatch, ALink >>)],
      [height |-> 1, data |-> Line("http://a.com http://b.com", << ALink, BLink >>)] }

NavUnits == { WidgetSource(id, p.height, p.data) : id \in 0..NavId, p \in NavPayloads }

NavStores == { srcs \in SeqsUpTo(NavUnits, NavLen) : NonDecreasing(srcs) }

\* the pointers a walk may start from: matches, and pointers that designate none
NavPointers == { CursorPointer(id, index) : id \in 0..(NavId + 1), index \in 0..1 }

Opposite(mode) == IF mode = "Next" THEN "Prev" ELSE "Next"

Matches(target) == flatten_sources(sources, "Next", target)

NavInit ==
    /\ main_pc = "nav"
    /\ has_text_size_protocol = FALSE
    /\ document_id = DocumentIdDefault
    /\ sources \in NavStores
    /\ updated_images = <<>>
    /\ scroll = 0
    /\ scroll_by_mul = 0
    /\ cursor = CursorNone
    /\ screen_size = TestSize
    /\ term_size = TestSize
    /\ cmd_chan = <<>>
    /\ event_chan = <<>>
    /\ worker_out = <<>>
    /\ tasks = <<>>
    /\ reloads = 0
    /\ call = NoCall
    /\ pass = NoPass
    /\ session = <<>>
    /\ cycle = CycleStart
    /\ worker_pc = "running"

NavFrame == UNCHANGED <<main_pc, has_text_size_protocol, document_id, sources, updated_images,
                        cmd_chan, event_chan, worker_out, tasks, reloads, pass,
                        scroll_by_mul, cursor, screen_size, term_size, session, cycle, worker_pc>>

CallFindFirst ==
    /\ main_pc = "nav" /\ call = NoCall
    /\ \E target \in FindTargets, scroll_row \in 0..NavScroll :
          /\ scroll' = scroll_row
          /\ call' = [op |-> "find_first_cursor", target |-> target,
                      ret |-> find_first_cursor(sources, target, scroll_row)]
    /\ NavFrame

\* the first step of a walk, or a single step from a pointer that designates no match
CallFindNext ==
    /\ main_pc = "nav" /\ call = NoCall
    /\ \E target \in FindTargets, mode \in FindModes, current \in NavPointers :
          /\ Matches(target) # <<>>
          /\ call' = [op |-> "find_next_cursor", target |-> target, mode |-> mode,
                      start |-> current,
                      trail |-> << Unwrap(find_next_cursor(sources, current, mode, target, 1)) >>,
                      back |-> <<>>]
    /\ UNCHANGED scroll
    /\ NavFrame

\* one more step in the mode of a walk that started from a match
CallFindNextAgain ==
    /\ main_pc = "nav" /\ call.op = "find_next_cursor"
    /\ position(Matches(call.target), call.start) # None
    /\ Len(call.trail) < Len(Matches(call.target))
    /\ call' = [call EXCEPT !.trail =
                  Append(@, Unwrap(find_next_cursor(sources, Last(call.trail), call.mode,
                                                    call.target, 1)))]
    /\ UNCHANGED scroll
    /\ NavFrame

\* one step in the opposite mode, once the walk has gone all its steps
CallFindNextBack ==
    /\ main_pc = "nav" /\ call.op = "find_next_cursor"
    /\ Len(call.trail) = Len(Matches(call.target))
    /\ Len(call.back) < Len(Matches(call.target))
    /\ call' = [call EXCEPT !.back =
                  Append(@, Unwrap(find_next_cursor(
                                sources,
                                IF call.back = <<>> THEN Last(call.trail) ELSE Last(call.back),
                                Opposite(call.mode), call.target, 1)))]
    /\ UNCHANGED scroll
    /\ NavFrame

NavNext == CallFindFirst \/ CallFindNext \/ CallFindNextAgain \/ CallFindNextBack

NavSpec == NavInit /\ [][NavNext]_vars

(***************************************************************************)
(* Cyclic navigation                                                       *)
(***************************************************************************)
Count(s, x) == Cardinality({ i \in 1..Len(s) : s[i] = x })
Elements(s) == { s[i] : i \in 1..Len(s) }

\* a walk that started from a match of its target
WalkFromMatch ==
    /\ call.op = "find_next_cursor"
    /\ call.start \in Elements(Matches(call.target))

MatchPlaces(srcs, target) ==
    { <<i, j>> \in (1..Len(srcs)) \X (1..2) :
        /\ srcs[i].data.kind = "Line"
        /\ j <= Len(srcs[i].data.extras)
        /\ matches(target, srcs[i].data.extras[j]) }

PlaceBefore(p, q) == p[1] < q[1] \/ (p[1] = q[1] /\ p[2] < q[2])

PointerAt(srcs, p) == CursorPointer(srcs[p[1]].id, p[2] - 1)

FirstPlace(places) == CHOOSE p \in places : \A q \in places \ {p} : PlaceBefore(p, q)
LastPlace(places) == CHOOSE p \in places : \A q \in places \ {p} : PlaceBefore(q, p)

\* the first step of a walk was taken from a pointer that designates no match
SteppedFromAbsent ==
    /\ call.op = "find_next_cursor"
    /\ Len(call.trail) = 1
    /\ call.start \notin Elements(Matches(call.target))

\* C15: when the current pointer designates no match and the store has a
\* match of the target, find_next_cursor returns the first match in document
\* order for Next and the last for Prev.
C15_AbsentPointerFallback ==
    SteppedFromAbsent =>
        LET places == MatchPlaces(sources, call.target)
        IN call.trail[1] = IF call.mode = "Next"
                           THEN PointerAt(sources, FirstPlace(places))
                           ELSE PointerAt(sources, LastPlace(places))

\* a step in mode Prev from a pointer of no match, in a store of several
\* matches on different entries: the last one was returned
C15_Witness ==
    /\ SteppedFromAbsent
    /\ call.mode = "Prev"
    /\ Cardinality({ p[1] : p \in MatchPlaces(sources, call.target) }) >= 2
    /\ call.trail[1] = PointerAt(sources, LastPlace(MatchPlaces(sources, call.target)))
    /\ call.trail[1] # PointerAt(sources, FirstPlace(MatchPlaces(sources, call.target)))

(***************************************************************************)
(* find_first_cursor                                                       *)
(***************************************************************************)
\* total_lines of the first i entries: the row after entry i
RowsUpTo(srcs, i) == total_lines(SubSeq(srcs, 1, i))

\* the matches on entries whose last row is the scroll row or a later one
PlacesFrom(srcs, target, scroll_row) ==
    { p \in MatchPlaces(srcs, target) : RowsUpTo(srcs, p[1]) - 1 >= scroll_row }

\* C16: find_first_cursor returns the first match among the entries that end
\* at or after the scroll row, the first match of the whole list if there is
\* none, and none only if the list has no match of the target.
C16_FindFirst ==
    call.op = "find_first_cursor" =>
        LET places == MatchPlaces(sources, call.target)
            from == PlacesFrom(sources, call.target, scroll)
        IN call.ret = IF from # {} THEN Some(PointerAt(sources, FirstPlace(from)))
                      ELSE IF places # {} THEN Some(PointerAt(sources, FirstPlace(places)))
                      ELSE None

\* find_first_cursor skipped a match above the scroll row and returned a
\* later one
C16_Witness ==
    /\ call.op = "find_first_cursor"
    /\ scroll > 0
    /\ PlacesFrom(sources, call.target, scroll) # {}
    /\ call.ret = Some(PointerAt(sources, FirstPlace(PlacesFrom(sources, call.target, scroll))))
    /\ call.ret # Some(PointerAt(sources, FirstPlace(MatchPlaces(sources, call.target))))

(***************************************************************************)
(* Viewport Controller (src/model.rs): scroll_by, visible_lines,           *)
(* jump_to_pointer, cursor_next and cursor_prev, on the fixed-width        *)
(* integers of the source.  An overflow of + or - wraps, as in a release   *)
(* build.                                                                  *)
(***************************************************************************)
I16Min == -32768
I16Max == 32767
U16Max == 65535

Min(a, b) == IF a < b THEN a ELSE b
Max(a, b) == IF a > b THEN a ELSE b

\* x as i16, x as u16
as_i16(x) == ((x + 32768) % 65536) - 32768
as_u16(x) == x % 65536

\* i16 / i16, which truncates towards zero
div_i16(a, b) == IF a >= 0 THEN a \div b ELSE 0 - ((0 - a) \div b)

\* i16::saturating_mul, i16::saturating_add, u16::saturating_add_signed, u16::saturating_sub
saturating_mul(a, b) == Max(I16Min, Min(I16Max, a * b))
saturating_add(a, b) == Max(I16Min, Min(I16Max, a + b))
saturating_add_signed(a, b) == Max(0, Min(U16Max, a + b))
saturating_sub(a, b) == IF a > b THEN a - b ELSE 0

\* PaddingConfig::calculate_height of the default configuration: no vertical padding
calculate_height(screen_height) == screen_height

\* Model::inner_height
inner_height(screen_height) == calculate_height(screen_height)

\* the fields of the Model the viewport and the navigator read and write
Self == [scroll |-> scroll, scroll_by_mul |-> scroll_by_mul, cursor |-> cursor,
         sources |-> sources, screen_size |-> screen_size]

\* the entry of the id is counted too
RECURSIVE get_y_inclusive(_, _)
get_y_inclusive(srcs, id) ==
    IF srcs = <<>> THEN 0
    ELSE IF Head(srcs).id = id THEN as_i16(Head(srcs).height)
    ELSE as_i16(as_i16(Head(srcs).height) + get_y_inclusive(Tail(srcs), id))

\* WidgetSources::get_y: the heights before the first entry of the id
RECURSIVE get_y(_, _)
get_y(srcs, id) ==
    IF srcs = <<>> \/ Head(srcs).id = id THEN 0
    ELSE as_i16(as_i16(Head(srcs).height) + get_y(Tail(srcs), id))

scroll_by(self, lines) ==
    LET by == saturating_mul(lines, Max(self.scroll_by_mul, 1))
    IN [self EXCEPT
          !.scroll_by_mul = 0,
          !.scroll = Min(saturating_add_signed(self.scroll, by),
                         as_u16(saturating_sub(total_lines(self.sources),
                                               inner_height(self.screen_size.height)) + 1))]

visible_lines(self) ==
    LET start_y == as_i16(self.scroll)
        end_y == as_i16(as_i16(start_y + as_i16(inner_height(self.screen_size.height))) - 2)
    IN << start_y, end_y >>

jump_to_pointer(self) ==
    IF IsSome(pointer_of(self.cursor))
    THEN LET pointer_y == get_y(self.sources, Unwrap(pointer_of(self.cursor)).id)
             from == visible_lines(self)[1]
             to == visible_lines(self)[2]
         IN IF pointer_y > to THEN scroll_by(self, as_i16(pointer_y - to))
            ELSE IF pointer_y < from THEN scroll_by(self, as_i16(pointer_y - from))
            ELSE self
    ELSE self

\* the match of cursor_next (mode Next) and cursor_prev (mode Prev): the
\* cursor before jump_to_pointer.  The calls of find_next_cursor take one step.
cursor_moved(self, mode) ==
    LET c == self.cursor
    IN CASE c.kind = "None" ->
              LET p == find_first_cursor(self.sources, "Link", self.scroll)
              IN IF IsSome(p) THEN [self EXCEPT !.cursor = CursorLinks(Unwrap(p))] ELSE self
         [] c.kind = "Links" ->
              LET p == find_next_cursor(self.sources, c.pointer, mode, "Link", 1)
              IN IF IsSome(p) THEN [self EXCEPT !.cursor = CursorLinks(Unwrap(p))] ELSE self
         [] c.kind = "Search" ->
              IF c.pointer = None
              THEN [self EXCEPT !.cursor.pointer =
                        find_first_cursor(self.sources, "Search", self.scroll)]
              ELSE [self EXCEPT !.cursor.pointer =
                        find_next_cursor(self.sources, Unwrap(c.pointer), mode, "Search", 1)]

cursor_next(self) == jump_to_pointer(cursor_moved(self, "Next"))
cursor_prev(self) == jump_to_pointer(cursor_moved(self, "Prev"))

(***************************************************************************)
(* run (src/main.rs): the keys and the resize of a session on a small      *)
(* terminal, together with the Coordinator and the Worker.  The file holds *)
(* two links and an image; a reload may find it cut down to one line.      *)
(***************************************************************************)
\* "http://a.com / text / text / http://b.com / ![image](./assets/you_fried.png)"
DocLinks ==
    << MarkdownBlock(<<"http://a.com", "text", "text", "http://b.com">>),
       ImageBlock("image", YouFried) >>

ViewSize == Size(80, 4)
ResizeSizes == { Size(80, 3) }

\* the keys pressed in the session
Keys == {"j", "k", "f", "n", "N"}

ViewInit ==
    /\ main_pc = "new"
    /\ has_text_size_protocol = FALSE
    /\ ModelNew(ViewSize)
    /\ session = << {DocLinks}, {DocLinks, DocShort} >>
    /\ cycle = CycleStart
    /\ worker_pc = "running"

ViewFrame == UNCHANGED <<main_pc, has_text_size_protocol, document_id, sources, updated_images,
                         cmd_chan, event_chan, worker_out, tasks, reloads, pass,
                         screen_size, term_size, session, cycle, worker_pc>>

\* the Model after a call that may write scroll, scroll_by_mul and cursor
Returns(self) ==
    /\ scroll' = self.scroll
    /\ scroll_by_mul' = self.scroll_by_mul
    /\ cursor' = self.cursor

\* run: page_scroll_count, from the size of the terminal
page_scroll_count == as_i16(as_i16(inner_height(term_size.height)) - 2)

\* the argument of scroll_by for a key that scrolls
key_lines(key) ==
    CASE key = "j" -> 1
      [] key = "k" -> -1
      [] key = "d" -> div_i16(as_i16(page_scroll_count + 1), 2)
      [] key = "u" -> div_i16(as_i16(0 - as_i16(page_scroll_count + 1)), 2)
      [] key = "f" -> page_scroll_count
      [] key = "b" -> as_i16(0 - page_scroll_count)

\* run: event::Event::Key, for a key pressed outside the input of a search
KeyPress ==
    /\ main_pc = "run"
    /\ \E key \in Keys :
          CASE key \in {"j", "k", "d", "u", "f", "b"} ->
                  /\ Returns(scroll_by(Self, key_lines(key)))
                  /\ call' = [op |-> "scroll_by", lines |-> key_lines(key), pre |-> Self]
            [] key = "G" /\ scroll_by_mul = 0 ->
                  /\ Returns([Self EXCEPT !.scroll =
                                saturating_sub(total_lines(sources),
                                               as_u16(as_u16(page_scroll_count) + 1))])
                  /\ call' = [op |-> "key", key |-> key, pre |-> Self]
            [] key = "g" \/ (key = "G" /\ scroll_by_mul # 0) ->
                  /\ Returns([Self EXCEPT !.scroll = as_u16(as_u16(Max(scroll_by_mul, 1)) - 1),
                                          !.scroll_by_mul = 0])
                  /\ call' = [op |-> "key", key |-> key, pre |-> Self]
            [] key = "9" ->
                  /\ Returns([Self EXCEPT !.scroll_by_mul =
                                saturating_add(saturating_mul(scroll_by_mul, 10), 9)])
                  /\ call' = [op |-> "key", key |-> key, pre |-> Self]
            [] key = "n" ->
                  /\ Returns(cursor_next(Self))
                  /\ call' = [op |-> "cursor_next", pre |-> Self,
                              moved |-> cursor_moved(Self, "Next")]
            [] key = "N" ->
                  /\ Returns(cursor_prev(Self))
                  /\ call' = [op |-> "cursor_prev", pre |-> Self,
                              moved |-> cursor_moved(Self, "Prev")]
            [] key = "Esc" /\ scroll_by_mul = 0 ->
                  /\ Returns([Self EXCEPT !.cursor =
                                IF \/ cursor.kind = "Links"
                                   \/ (cursor.kind = "Search" /\ cursor.state.accepted)
                                THEN CursorNone ELSE cursor])
                  /\ call' = [op |-> "key", key |-> key, pre |-> Self]
            [] key = "Esc" /\ scroll_by_mul # 0 ->
                  /\ Returns([Self EXCEPT !.scroll_by_mul = 0])
                  /\ call' = [op |-> "key", key |-> key, pre |-> Self]
    /\ ViewFrame

\* run: event::Event::Resize to another size: screen_size of run is
\* replaced and the file read again (Model::reload)
Resize ==
    /\ main_pc = "run"
    /\ reloads < SessionReloads
    /\ \E size \in ResizeSizes :
          /\ size # term_size
          /\ term_size' = size
    /\ \E text \in FileTexts :
          /\ cmd_chan' = Append(cmd_chan, CmdParse(reload(document_id), text))
          /\ pass' = [pass EXCEPT !.texts = Append(@, text),
                                  !.ids = Append(@, reload(document_id))]
    /\ reloads' = reloads + 1
    /\ call' = [op |-> "resize", pre |-> Self]
    /\ UNCHANGED <<main_pc, has_text_size_protocol, document_id, sources, updated_images,
                   event_chan, worker_out, tasks, scroll, scroll_by_mul, cursor,
                   screen_size, session, cycle, worker_pc>>

ViewNext ==
    \/ Open \/ Reload \/ Watch \/ ProcessEvent \/ WorkerRecv \/ WorkerSend \/ TaskDone
    \/ KeyPress \/ Resize

ViewSpec == ViewInit /\ [][ViewNext]_vars

(***************************************************************************)
(* Model harness: scroll_by, cursor_next and cursor_prev called on a Model *)
(* in any state: a short or a long list of units, any scroll offset, any   *)
(* pending movement count, any cursor on a match.                          *)
(***************************************************************************)
ScrollLen == 3
ScrollCalls == 2

ScrollPayloads ==
    { [height |-> 1, data |-> Line("text", <<>>)],
      [height |-> 1, data |-> Line("http://a.com", << ALink >>)],
      [height |-> 1, data |-> Line("http", << AMatch >>)],
      [height |-> 3, data |-> Image(YouFried, <<1, 0, 0, 1>>)] }

\* the lists a first load leaves: the ids count up from 0
ScrollStores ==
    { [i \in 1..Len(ps) |-> WidgetSource(i - 1, ps[i].height, ps[i].data)] :
        ps \in SeqsUpTo(ScrollPayloads, ScrollLen) }

ScrollRows == {0, 1, 2, 5, 9}
Counts == {0, 3, I16Max}
Deltas == {I16Min, -1, 1, I16Max}

Accepted == SearchState("http", TRUE)

\* no cursor, a cursor on a link, a search with no match chosen or with one
ScrollCursors(srcs) ==
    {CursorNone, CursorSearch(Accepted, None)}
        \cup { CursorLinks(p) : p \in { flatten_sources(srcs, "Next", "Link")[i] :
                                          i \in 1..Len(flatten_sources(srcs, "Next", "Link")) } }
        \cup { CursorSearch(Accepted, Some(p)) :
                 p \in { flatten_sources(srcs, "Next", "Search")[i] :
                           i \in 1..Len(flatten_sources(srcs, "Next", "Search")) } }

ScrollInit ==
    /\ main_pc = "model"
    /\ has_text_size_protocol = FALSE
    /\ document_id = open(DocumentIdDefault)
    /\ sources \in ScrollStores
    /\ updated_images = <<>>
    /\ scroll \in ScrollRows
    /\ scroll_by_mul \in Counts
    /\ cursor \in ScrollCursors(sources)
    /\ screen_size = ViewSize
    /\ term_size = ViewSize
    /\ cmd_chan = <<>>
    /\ event_chan = <<>>
    /\ worker_out = <<>>
    /\ tasks = <<>>
    /\ reloads = 0
    /\ call = NoCall
    /\ pass = NoPass
    /\ session = <<>>
    /\ cycle = CycleStart
    /\ worker_pc = "running"

CallsMade == IF call = NoCall THEN 0 ELSE call.n

CallScrollBy ==
    /\ main_pc = "model" /\ CallsMade < ScrollCalls
    /\ \E lines \in Deltas :
          /\ Returns(scroll_by(Self, lines))
          /\ call' = [op |-> "scroll_by", lines |-> lines, pre |-> Self, n |-> CallsMade + 1]
    /\ ViewFrame

CallCursorNext ==
    /\ main_pc = "model" /\ CallsMade < ScrollCalls
    /\ Returns(cursor_next(Self))
    /\ call' = [op |-> "cursor_next", pre |-> Self, moved |-> cursor_moved(Self, "Next"),
                n |-> CallsMade + 1]
    /\ ViewFrame

CallCursorPrev ==
    /\ main_pc = "model" /\ CallsMade < ScrollCalls
    /\ Returns(cursor_prev(Self))
    /\ call' = [op |-> "cursor_prev", pre |-> Self, moved |-> cursor_moved(Self, "Prev"),
                n |-> CallsMade + 1]
    /\ ViewFrame

ScrollNext == CallScrollBy \/ CallCursorNext \/ CallCursorPrev

ScrollSpec == ScrollInit /\ [][ScrollNext]_vars

(***************************************************************************)
(* Viewport clamp                                                          *)
(***************************************************************************)
\* C17: after any scroll_by, whatever the delta and the calls before it,
\* scroll lies in [0, total_rows - visible_rows + 1], total_rows the sum of
\* the heights and visible_rows the inner height of the screen; an upper end
\* below 0 stands for 0.
C17_ViewportClamp ==
    call.op = "scroll_by"
        => /\ scroll >= 0
           /\ scroll <= Max(total_lines(sources) - inner_height(screen_size.height) + 1, 0)

(***************************************************************************)
(* jump_to_pointer                                                         *)
(***************************************************************************)
\* cursor_next or cursor_prev left the cursor on a pointer whose unit the
\* list holds
TookCursorStep ==
    /\ call.op \in {"cursor_next", "cursor_prev"}
    /\ IsSome(pointer_of(call.moved.cursor))
    /\ HasId(sources, Unwrap(pointer_of(call.moved.cursor)).id)

\* the first row of the unit the cursor points to
PointerRow == total_lines(Before(sources, Unwrap(pointer_of(cursor)).id))

\* the last row of the visible window when the first is row s
WindowEnd(s) == s + inner_height(screen_size.height) - 2

\* C18: after cursor_next or cursor_prev, whatever scroll and the pending
\* movement count were, scroll has grown by exactly the rows the pointer's row
\* lay below the visible window, or shrunk by exactly the rows it lay above,
\* or is unchanged, and the pointer's row lies inside the visible window.
C18_JumpMinimal ==
    TookCursorStep =>
        LET was == call.moved.scroll
        IN /\ scroll = IF PointerRow > WindowEnd(was) THEN was + (PointerRow - WindowEnd(was))
                       ELSE IF PointerRow < was THEN was - (was - PointerRow)
                       ELSE was
           /\ scroll <= PointerRow
           /\ PointerRow <= WindowEnd(scroll)

(***************************************************************************)
(* Resize and reparse                                                      *)
(***************************************************************************)
\* C19: once the terminal has been resized, scroll_by clamps against the
\* inner height of the terminal's size, and jump_to_pointer takes the visible
\* window from it: each leaves scroll as it would with the Model's screen
\* size equal to the terminal's.
C19_ResizeRecomputes ==
    /\ call.op = "scroll_by"
          => scroll = scroll_by([call.pre EXCEPT !.screen_size = term_size], call.lines).scroll
    /\ call.op \in {"cursor_next", "cursor_prev"}
          => scroll = jump_to_pointer([call.moved EXCEPT !.screen_size = term_size]).scroll

\* process_events took the ParseDone of the reparse of the document that was
\* opened and loaded, and the list lost rows by it
TookShorteningParseDone ==
    /\ call.op = "process_events"
    /\ call.event.event = "ParseDone"
    /\ call.document_id = reload(open(DocumentIdDefault))
    /\ call.event.document_id = call.document_id
    /\ total_lines(sources) < total_lines(call.pre.sources)

\* C20: after the ParseDone of a reparse that shortened the document, scroll
\* is what it was if that is within the new total height, and otherwise lies
\* within the new total height.
C20_ReparseKeepsScrollWithin ==
    TookShorteningParseDone =>
        IF call.scroll <= total_lines(sources)
        THEN scroll = call.scroll
        ELSE scroll <= total_lines(sources)

(***************************************************************************)
(* Search: the regex of add_searches and the keys of run (src/main.rs)     *)
(***************************************************************************)
\* char::to_lowercase, as the case-insensitive regex folds the letters
lower_char(c) ==
    CASE c = "A" -> "a"
      [] c = "H" -> "h"
      [] c = "T" -> "t"
      [] OTHER -> c

RECURSIVE to_lowercase(_)
to_lowercase(s) ==
    IF s = "" THEN "" ELSE lower_char(SubSeq(s, 1, 1)) \o to_lowercase(SubSeq(s, 2, Len(s)))

\* the literal, case-insensitive regex of the needle matches the line at the
\* offset pos (counted from 0)
is_match_at(needle, line, pos) ==
    /\ pos + Len(needle) <= Len(line)
    /\ to_lowercase(SubSeq(line, pos + 1, pos + Len(needle))) = to_lowercase(needle)

\* Regex::find_iter mapped by regex_to_searchmatch: the successive
\* non-overlapping matches from pos on, each search starting where the last
\* match ended (one further after an empty match)
RECURSIVE find_iter(_, _, _)
find_iter(needle, line, pos) ==
    IF pos > Len(line) THEN <<>>
    ELSE IF is_match_at(needle, line, pos)
    THEN << SearchMatch(pos, pos + Len(needle), SubSeq(line, pos + 1, pos + Len(needle))) >>
            \o find_iter(needle, line, IF needle = "" THEN pos + 1 ELSE pos + Len(needle))
    ELSE find_iter(needle, line, pos + 1)

\* the predicate of extras.retain
NotSearchMatch(extra) == extra.kind # "SearchMatch"

\* the matches of the last search are kept
add_search_keeping(data, re) ==
    IF data.kind = "Line" /\ IsSome(re)
    THEN [data EXCEPT !.extras = @ \o find_iter(Unwrap(re), data.line, 0)]
    ELSE data

\* WidgetSourceData::add_search
add_search(data, re) ==
    IF data.kind = "Line"
    THEN LET kept == SelectSeq(data.extras, NotSearchMatch)
         IN [data EXCEPT !.extras =
                IF IsSome(re) THEN kept \o find_iter(Unwrap(re), data.line, 0) ELSE kept]
    ELSE data

\* Model::add_searches: the regex of an escaped needle always builds, so re
\* is the needle to find literally
add_searches(self, needle) ==
    [self EXCEPT !.sources =
        [i \in 1..Len(self.sources) |->
            [self.sources[i] EXCEPT !.data = add_search(@, needle)]]]

\* SearchState::default
SearchStateDefault == SearchState("", FALSE)

\* KeyCode::Char(c): the names of the other keys are longer
IsChar(key) == Len(key) = 1

\* String::pop
pop(s) == IF s = "" THEN "" ELSE SubSeq(s, 1, Len(s) - 1)

Digits == {"0", "1", "2", "3", "4", "5", "6", "7", "8", "9"}

\* x as i16 - '0' as i16
digit_value(x) ==
    CASE x = "0" -> 0 [] x = "1" -> 1 [] x = "2" -> 2 [] x = "3" -> 3 [] x = "4" -> 4
      [] x = "5" -> 5 [] x = "6" -> 6 [] x = "7" -> 7 [] x = "8" -> 8 [] x = "9" -> 9

\* the character is dropped
search_char_dropped(self, c) == self

\* run, search input: KeyCode::Char(c)
search_char(self, c) ==
    LET needle == self.cursor.state.needle \o c
    IN add_searches([self EXCEPT !.cursor.state.needle = needle], Some(needle))

\* run, search input: KeyCode::Backspace
search_backspace(self) ==
    LET needle == pop(self.cursor.state.needle)
    IN add_searches([self EXCEPT !.cursor.state.needle = needle], Some(needle))

\* run, search input: KeyCode::Esc
search_esc(self) ==
    IF self.scroll_by_mul = 0 THEN [self EXCEPT !.cursor = CursorNone]
    ELSE [self EXCEPT !.scroll_by_mul = 0]

\* the search is accepted and no step taken
search_enter_no_step(self) == [self EXCEPT !.cursor.state.accepted = TRUE]

\* run, search input: KeyCode::Enter
search_enter(self) == cursor_next([self EXCEPT !.cursor.state.accepted = TRUE])

\* run: the keys while Cursor::Search(mode, _) has !mode.accepted.  The arm
\* of '/' is guarded by mode.accepted and never taken here.
search_input(self, key) ==
    CASE IsChar(key) -> search_char(self, key)
      [] key = "Backspace" -> search_backspace(self)
      [] key = "Esc" -> search_esc(self)
      [] key = "Enter" -> search_enter(self)
      [] OTHER -> self

\* run: KeyCode::Char('/')
key_slash(self) ==
    [self EXCEPT !.cursor = CursorSearch(SearchStateDefault, None), !.scroll_by_mul = 0]

\* only a cursor on a link is dropped
key_esc_links_only(self) ==
    IF self.scroll_by_mul = 0
    THEN IF self.cursor.kind = "Links" THEN [self EXCEPT !.cursor = CursorNone] ELSE self
    ELSE [self EXCEPT !.scroll_by_mul = 0]

\* run: KeyCode::Esc
key_esc(self) ==
    IF self.scroll_by_mul = 0
    THEN IF self.cursor.kind = "Search" /\ self.cursor.state.accepted
         THEN [self EXCEPT !.cursor = CursorNone]
         ELSE IF self.cursor.kind = "Links" THEN [self EXCEPT !.cursor = CursorNone]
         ELSE self
    ELSE [self EXCEPT !.scroll_by_mul = 0]

\* run: the keys outside the input of a search, but 'q', Ctrl-c and 'r'.
\* Enter opens the link under the cursor and F11 toggles the log: the Model's
\* scroll, count, cursor and units stay.
normal_key(self, key) ==
    CASE key \in {"j", "k", "d", "u", "f", "b"} -> scroll_by(self, key_lines(key))
      [] key = "Down" -> scroll_by(self, key_lines("j"))
      [] key = "Up" -> scroll_by(self, key_lines("k"))
      [] key \in {" ", "PageDown"} -> scroll_by(self, key_lines("f"))
      [] key = "PageUp" -> scroll_by(self, key_lines("b"))
      [] key = "G" /\ self.scroll_by_mul = 0 ->
            [self EXCEPT !.scroll = saturating_sub(total_lines(self.sources),
                                                   as_u16(as_u16(page_scroll_count) + 1))]
      [] key = "g" \/ (key = "G" /\ self.scroll_by_mul # 0) ->
            [self EXCEPT !.scroll = as_u16(as_u16(Max(self.scroll_by_mul, 1)) - 1),
                         !.scroll_by_mul = 0]
      [] key = "/" -> key_slash(self)
      [] key = "n" -> cursor_next(self)
      [] key = "N" -> cursor_prev(self)
      [] key = "Esc" -> key_esc(self)
      [] key = "Backspace" -> [self EXCEPT !.scroll_by_mul = div_i16(@, 10)]
      [] key \in Digits ->
            [self EXCEPT !.scroll_by_mul =
                saturating_add(saturating_mul(@, 10), digit_value(key))]
      [] OTHER -> self

(***************************************************************************)
(* Key harness: the keys of a search typed in a session whose document is  *)
(* loaded: six rows on a terminal of three, a line with three a's, a       *)
(* header, a line with a link.                                             *)
(***************************************************************************)
MaxNeedle == 2

KeySize == Size(80, 3)

KeyStore ==
    << WidgetSource(0, 1, Line("aAa", <<>>)),
       WidgetSource(1, 2, Header("aa", 1)),
       WidgetSource(2, 1, Line("http://a.com", capture_line("http://a.com"))),
       WidgetSource(3, 1, Line("text", <<>>)),
       WidgetSource(4, 1, Line("text", <<>>)) >>

\* the keys pressed: characters, and Backspace, Esc, Enter, Down
KeyChars == {"a", "A", "j", "n", "q", "2", "/"}
KeyCodes == KeyChars \cup {"Backspace", "Esc", "Enter", "Down"}

KeyInit ==
    /\ main_pc = "keys"
    /\ has_text_size_protocol = TRUE
    /\ document_id = open(DocumentIdDefault)
    /\ sources = KeyStore
    /\ updated_images = <<>>
    /\ scroll = 0
    /\ scroll_by_mul = 0
    /\ cursor = CursorNone
    /\ screen_size = KeySize
    /\ term_size = KeySize
    /\ cmd_chan = <<>>
    /\ event_chan = <<>>
    /\ worker_out = <<>>
    /\ tasks = <<>>
    /\ reloads = 0
    /\ call = NoCall
    /\ pass = NoPass
    /\ session = <<>>
    /\ cycle = CycleStart
    /\ worker_pc = "running"

KeyFrame == UNCHANGED <<has_text_size_protocol, document_id, updated_images,
                        cmd_chan, event_chan, worker_out, tasks, reloads, pass,
                        screen_size, term_size, session, cycle, worker_pc>>

SearchInput == cursor.kind = "Search" /\ ~cursor.state.accepted

\* the Model after a key that may also write the units' extras
Handled(self) ==
    /\ Returns(self)
    /\ sources' = self.sources

\* run: a key pressed while the needle of a search is typed
SearchKey ==
    /\ main_pc = "keys"
    /\ SearchInput
    /\ \E key \in KeyCodes :
          /\ IsChar(key) => Len(cursor.state.needle) < MaxNeedle
          /\ Handled(search_input(Self, key))
          /\ call' = [op |-> "search_input", key |-> key, pre |-> Self]
    /\ main_pc' = main_pc
    /\ KeyFrame

\* run: a key pressed otherwise
NormalKey ==
    /\ main_pc = "keys"
    /\ ~SearchInput
    /\ \E key \in KeyCodes \ {"q"} :
          /\ Handled(normal_key(Self, key))
          /\ call' = [op |-> "normal_key", key |-> key, pre |-> Self]
    /\ main_pc' = main_pc
    /\ KeyFrame

\* run: 'q' returns Ok(())
Quit ==
    /\ main_pc = "keys"
    /\ ~SearchInput
    /\ main_pc' = "exit"
    /\ call' = [op |-> "normal_key", key |-> "q", pre |-> Self]
    /\ UNCHANGED <<sources, scroll, scroll_by_mul, cursor>>
    /\ KeyFrame

KeyNext == SearchKey \/ NormalKey \/ Quit

KeySpec == KeyInit /\ [][KeyNext]_vars

(***************************************************************************)
(* Entering and accepting a search                                         *)
(***************************************************************************)
\* the places of all the matches of the target: <<entry, extra>>, from 1
AllPlaces(srcs, target) ==
    UNION { { <<i, j>> : j \in { k \in 1..Len(srcs[i].data.extras) :
                                   matches(target, srcs[i].data.extras[k]) } } :
            i \in { n \in 1..Len(srcs) : srcs[n].data.kind = "Line" } }

\* those on entries whose last row is the scroll row or a later one
AllPlacesFrom(srcs, target, scroll_row) ==
    { p \in AllPlaces(srcs, target) : RowsUpTo(srcs, p[1]) - 1 >= scroll_row }

TookSlash == call # NoCall /\ call.op = "normal_key" /\ call.key = "/"
TookEnter == call # NoCall /\ call.op = "search_input" /\ call.key = "Enter"

\* '/' pressed outside the input of a search opened a fresh search
SlashOpens == TookSlash => cursor = CursorSearch(SearchState("", FALSE), None)

\* Enter accepted the search as it was typed
EnterAccepts ==
    TookEnter => /\ cursor.kind = "Search"
                 /\ cursor.state = [call.pre.cursor.state EXCEPT !.accepted = TRUE]

\* C21 as stated: '/' pressed outside the input of a search opens a search
\* with an empty needle, not accepted, with no pointer; Enter in the input of
\* a search accepts it and the pointer becomes the first match at or after
\* the scroll row, and stays absent when the document has no match.
C21_Stated ==
    /\ SlashOpens
    /\ EnterAccepts
    /\ TookEnter =>
          LET places == AllPlaces(call.pre.sources, "Search")
              from == AllPlacesFrom(call.pre.sources, "Search", call.pre.scroll)
          IN IF places = {} THEN cursor.pointer = None
             ELSE /\ from # {}
                  /\ cursor.pointer = Some(PointerAt(call.pre.sources, FirstPlace(from)))

\* C21: '/' pressed outside the input of a search opens a search with an
\* empty needle, not accepted, with no pointer; Enter in the input of a
\* search accepts it and the pointer becomes the first match among the units
\* that end at or after the scroll row, the first match of the document when
\* there is none there, and stays absent when the document has no match.
C21_EnterTakesFirstStep ==
    /\ SlashOpens
    /\ EnterAccepts
    /\ TookEnter =>
          LET places == AllPlaces(call.pre.sources, "Search")
              from == AllPlacesFrom(call.pre.sources, "Search", call.pre.scroll)
          IN cursor.pointer =
                IF from # {} THEN Some(PointerAt(call.pre.sources, FirstPlace(from)))
                ELSE IF places # {} THEN Some(PointerAt(call.pre.sources, FirstPlace(places)))
                ELSE None

\* Enter pressed with the window below every match: the pointer went to the
\* first match of the document
C21_Witness ==
    /\ TookEnter
    /\ call.pre.scroll > 0
    /\ AllPlaces(call.pre.sources, "Search") # {}
    /\ AllPlacesFrom(call.pre.sources, "Search", call.pre.scroll) = {}
    /\ cursor.state.accepted
    /\ cursor.pointer = Some(CursorPointer(0, 0))

(***************************************************************************)
(* Esc, and the keys typed into the needle                                 *)
(***************************************************************************)
TookKey == call # NoCall /\ call.op \in {"search_input", "normal_key"}

\* C22: Esc pressed with no pending movement count leaves the navigator None,
\* whether it was on a link, in the input of a search or in an accepted
\* search; and the navigator is None before any key is pressed.
C22_EscResets ==
    /\ call = NoCall => cursor = CursorNone
    /\ (TookKey /\ call.key = "Esc" /\ call.pre.scroll_by_mul = 0) => cursor = CursorNone

\* Esc was pressed in an accepted search that had a match chosen
C22_Witness ==
    /\ TookKey /\ call.key = "Esc" /\ call.pre.scroll_by_mul = 0
    /\ call.pre.cursor.kind = "Search"
    /\ call.pre.cursor.state.accepted
    /\ IsSome(call.pre.cursor.pointer)
    /\ cursor = CursorNone

TookSearchInput == call # NoCall /\ call.op = "search_input"

\* C23: a key pressed in the input of a search leaves scroll as it was and
\* the pointer absent, unless it is Enter; a character key appends its
\* character to the needle, Backspace removes the needle's last character;
\* and there is no pointer while the search is not accepted.
C23_InputOnlyEditsNeedle ==
    /\ SearchInput => cursor.pointer = None
    /\ TookSearchInput =>
          LET before == call.pre.cursor.state.needle
          IN /\ call.key # "Enter" => scroll = call.pre.scroll /\ pointer_of(cursor) = None
             /\ IsChar(call.key) =>
                   cursor = CursorSearch(SearchState(before \o call.key, FALSE), None)
             /\ call.key = "Backspace" =>
                   /\ cursor.kind = "Search" /\ ~cursor.state.accepted
                   /\ IF before = "" THEN cursor.state.needle = ""
                      ELSE /\ Len(cursor.state.needle) = Len(before) - 1
                           /\ cursor.state.needle = SubSeq(before, 1, Len(before) - 1)

\* 'j' was typed after 'n' with the window scrolled down: the needle is "nj"
\* and the window stayed
C23_Witness ==
    /\ TookSearchInput
    /\ call.key = "j"
    /\ call.pre.cursor.state.needle = "n"
    /\ cursor.state.needle = "nj"
    /\ scroll > 0
    /\ scroll = call.pre.scroll

(***************************************************************************)
(* The matches of the needle                                               *)
(***************************************************************************)
\* the offsets at which the needle occurs in the line, letter case apart
Occurrences(needle, line) == { p \in 0..Len(line) : is_match_at(needle, line, p) }

\* the occurrences a scan from the left takes: an occurrence is taken unless
\* it begins inside one taken before it
TakenOccurrences(needle, line) ==
    LET occ == Occurrences(needle, line)
    IN IF needle = "" THEN occ
       ELSE CHOOSE taken \in SUBSET occ :
               \A p \in occ :
                  p \in taken <=> ~\E q \in taken : q < p /\ p < q + Len(needle)

SearchMatchesOf(data) == SelectSeq(data.extras, LAMBDA e : e.kind = "SearchMatch")
OtherExtrasOf(data) == SelectSeq(data.extras, LAMBDA e : e.kind # "SearchMatch")

TookNeedleEdit == TookSearchInput /\ (IsChar(call.key) \/ call.key = "Backspace")

\* C24: after a needle edit in the input of a search, the SearchMatch extras
\* of every Line unit are the occurrences of the needle in the line, letter
\* case apart, from left to right, each with the text it covers; the other
\* extras of the line are those it had, in front of the matches; the other
\* units are as they were.
C24_MatchesAreOccurrences ==
    TookNeedleEdit =>
        /\ Len(sources) = Len(call.pre.sources)
        /\ \A i \in 1..Len(sources) :
              LET was == call.pre.sources[i]
                  now == sources[i]
                  needle == cursor.state.needle
              IN IF was.data.kind # "Line" THEN now = was
                 ELSE LET found == SearchMatchesOf(now.data)
                          taken == TakenOccurrences(needle, was.data.line)
                      IN /\ now = [was EXCEPT !.data.extras = OtherExtrasOf(was.data) \o found]
                         /\ Len(found) = Cardinality(taken)
                         /\ \A k \in 1..Len(found) :
                               /\ found[k].start \in taken
                               /\ found[k].end = found[k].start + Len(needle)
                               /\ found[k].text = SubSeq(was.data.line, found[k].start + 1,
                                                         found[k].end)
                               /\ k > 1 => found[k - 1].start < found[k].start

\* "a" was typed over the matches of another needle: the line "aAa" has its
\* three letters as matches and the line of the link has its link, then the
\* match of its a
C24_Witness ==
    /\ TookNeedleEdit
    /\ cursor.state.needle = "a"
    /\ \E i \in 1..Len(call.pre.sources) :
          /\ call.pre.sources[i].data.kind = "Line"
          /\ SearchMatchesOf(call.pre.sources[i].data) # <<>>
          /\ SearchMatchesOf(call.pre.sources[i].data) # SearchMatchesOf(sources[i].data)
    /\ sources[1].data.extras =
          << SearchMatch(0, 1, "a"), SearchMatch(1, 2, "A"), SearchMatch(2, 3, "a") >>
    /\ sources[3].data.extras = capture_line("http://a.com") \o << SearchMatch(7, 8, "a") >>

(***************************************************************************)
(* run's loop (src/main.rs): each turn drains the events, polls the        *)
(* terminal for one input and redraws; the Worker's thread may terminate.  *)
(***************************************************************************)
\* Duration::from_millis(100)
PollShort == 100

\* the timeout is short whether events were drained or not
poll_timeout_short(had_events) == PollShort

\* run: the timeout given to event::poll, in milliseconds
poll_timeout(had_events) == IF had_events THEN 0 ELSE PollShort

\* the screen is drawn for events only
redraws_for_events(had_events, had_input) == had_events

\* run: the condition of terminal.draw
redraws(had_events, had_input) == had_events \/ had_input

\* process_events sends a command for the event: a reload's Parse for
\* FileChanged, the command of an image or a header
NeedsWorker(event) ==
    \/ event.event = "FileChanged"
    \/ process_event(document_id, Store, event).cmds # <<>>

LoopInit ==
    /\ main_pc = "new"
    /\ has_text_size_protocol = FALSE
    /\ ModelNew(TestSize)
    /\ session = << {DocTwoImages}, {DocShort} >>
    /\ cycle = CycleStart
    /\ worker_pc = "running"

\* process_events: try_recv returned an event and it was applied
DrainEvent ==
    /\ main_pc = "run"
    /\ cycle.at = "drain"
    /\ event_chan # <<>>
    /\ worker_pc = "running" \/ ~NeedsWorker(Head(event_chan))
    /\ Processed
    /\ cycle' = [cycle EXCEPT !.had_events = TRUE]
    /\ UNCHANGED <<main_pc, worker_pc>>

\* process_events: cmd_tx.send(..)? fails, the receiver being dropped, after
\* the event was applied to the store; run returns the error
DrainFails ==
    /\ main_pc = "run"
    /\ cycle.at = "drain"
    /\ event_chan # <<>>
    /\ worker_pc = "terminated" /\ NeedsWorker(Head(event_chan))
    /\ LET out == process_event(document_id, Store, Head(event_chan))
       IN /\ document_id' = out.document_id
          /\ sources' = out.ws.sources
          /\ updated_images' = out.ws.updated_images
    /\ event_chan' = Tail(event_chan)
    /\ main_pc' = "error"
    /\ UNCHANGED <<has_text_size_protocol, cmd_chan, worker_out, tasks, reloads, call, pass,
                   view, session, cycle, worker_pc>>

\* process_events: try_recv returned Err, for an empty channel as for a
\* disconnected one: the while-let ends and Ok((had_events, _)) is returned
DrainEnd ==
    /\ main_pc = "run"
    /\ cycle.at = "drain"
    /\ event_chan = <<>>
    /\ cycle' = [cycle EXCEPT !.at = "poll", !.timeout = Some(poll_timeout(cycle.had_events))]
    /\ UNCHANGED <<main_pc, has_text_size_protocol, document_id, sources, updated_images,
                   cmd_chan, event_chan, worker_out, tasks, reloads, call, pass, view,
                   session, worker_pc>>

\* event::poll returned false: no input within the timeout
PollTimeout ==
    /\ main_pc = "run"
    /\ cycle.at = "poll"
    /\ cycle' = [cycle EXCEPT !.at = "draw"]
    /\ UNCHANGED <<main_pc, has_text_size_protocol, document_id, sources, updated_images,
                   cmd_chan, event_chan, worker_out, tasks, reloads, call, pass, view,
                   session, worker_pc>>

\* event::poll returned true and the key read was 'j'
PollScroll ==
    /\ main_pc = "run"
    /\ cycle.at = "poll"
    /\ Returns(scroll_by(Self, 1))
    /\ cycle' = [cycle EXCEPT !.at = "draw", !.had_input = TRUE]
    /\ UNCHANGED <<main_pc, has_text_size_protocol, document_id, sources, updated_images,
                   cmd_chan, event_chan, worker_out, tasks, reloads, call, pass,
                   screen_size, term_size, session, worker_pc>>

\* event::poll returned true and the key read was 'q': run returns Ok(())
PollQuit ==
    /\ main_pc = "run"
    /\ cycle.at = "poll"
    /\ main_pc' = "exit"
    /\ cycle' = [cycle EXCEPT !.had_input = TRUE]
    /\ UNCHANGED <<has_text_size_protocol, document_id, sources, updated_images,
                   cmd_chan, event_chan, worker_out, tasks, reloads, call, pass, view,
                   session, worker_pc>>

\* event::poll returned true and the key read was 'r': Model::reload sent
\* the Parse of the text read
PollReload ==
    /\ main_pc = "run"
    /\ cycle.at = "poll"
    /\ worker_pc = "running"
    /\ reloads < SessionReloads
    /\ \E text \in FileTexts :
          /\ cmd_chan' = Append(cmd_chan, CmdParse(reload(document_id), text))
          /\ pass' = [pass EXCEPT !.texts = Append(@, text),
                                  !.ids = Append(@, reload(document_id))]
    /\ reloads' = reloads + 1
    /\ cycle' = [cycle EXCEPT !.at = "draw", !.had_input = TRUE]
    /\ UNCHANGED <<main_pc, has_text_size_protocol, document_id, sources, updated_images,
                   event_chan, worker_out, tasks, call, view, session, worker_pc>>

\* the key read was 'r' and cmd_tx.send(..)? of Model::parse fails: run
\* returns the error
PollReloadFails ==
    /\ main_pc = "run"
    /\ cycle.at = "poll"
    /\ worker_pc = "terminated"
    /\ main_pc' = "error"
    /\ cycle' = [cycle EXCEPT !.had_input = TRUE]
    /\ UNCHANGED <<has_text_size_protocol, document_id, sources, updated_images,
                   cmd_chan, event_chan, worker_out, tasks, reloads, call, pass, view,
                   session, worker_pc>>

\* the end of the turn: terminal.draw if had_events || had_input.  call
\* records the turn.
Draw ==
    /\ main_pc = "run"
    /\ cycle.at = "draw"
    /\ call' = [op |-> "cycle", had_events |-> cycle.had_events,
                had_input |-> cycle.had_input, timeout |-> Unwrap(cycle.timeout),
                drawn |-> redraws(cycle.had_events, cycle.had_input)]
    /\ cycle' = CycleStart
    /\ UNCHANGED <<main_pc, has_text_size_protocol, document_id, sources, updated_images,
                   cmd_chan, event_chan, worker_out, tasks, reloads, pass, view,
                   session, worker_pc>>

\* the Worker's thread terminates: its receiver of commands is dropped with
\* the commands not yet received, and its tasks with its runtime
WorkerTerminates ==
    /\ main_pc = "run"
    /\ worker_pc = "running"
    /\ worker_pc' = "terminated"
    /\ cmd_chan' = <<>>
    /\ worker_out' = <<>>
    /\ tasks' = <<>>
    /\ UNCHANGED <<main_pc, has_text_size_protocol, document_id, sources, updated_images,
                   event_chan, reloads, call, pass, view, session, cycle>>

LoopNext ==
    \/ Open \/ WorkerRecv \/ WorkerSend \/ TaskDone \/ WorkerTerminates
    \/ DrainEvent \/ DrainFails \/ DrainEnd
    \/ PollTimeout \/ PollScroll \/ PollQuit \/ PollReload \/ PollReloadFails
    \/ Draw

LoopSpec == LoopInit /\ [][LoopNext]_vars

\* run keeps taking the turns of its loop: it drains what is queued, the poll
\* returns when its timeout ends, and the turn ends.  No key has to be
\* pressed.
FairLoopSpec ==
    /\ LoopSpec
    /\ WF_vars(DrainEvent)
    /\ WF_vars(DrainFails)
    /\ WF_vars(DrainEnd)
    /\ WF_vars(PollTimeout)
    /\ WF_vars(Draw)

(***************************************************************************)
(* The turn of the loop                                                    *)
(***************************************************************************)
TookTurn == call # NoCall /\ call.op = "cycle"

\* C25: in every turn of the loop that reaches its end, the poll timeout was
\* zero exactly when the drain took at least one event, and was the short
\* non-zero one otherwise; and the screen was redrawn exactly when an event
\* was drained or an input read.
C25_PollAndRedraw ==
    TookTurn =>
        /\ call.timeout = 0 <=> call.had_events
        /\ ~call.had_events => call.timeout = PollShort /\ call.timeout > 0
        /\ call.drawn <=> (call.had_events \/ call.had_input)

\* a turn with an input read and no event drained: the timeout was the short
\* one and the screen was redrawn
C25_Witness ==
    /\ TookTurn
    /\ ~call.had_events
    /\ call.had_input
    /\ call.timeout = PollShort
    /\ call.drawn

\* C26: once the Worker's thread has terminated, run stops: a call of
\* process_events or of reload returns the error and the loop is left.
C26_DisconnectionIsFatal == (worker_pc = "terminated") ~> (main_pc # "run")

(***************************************************************************)
(* The DocumentIds of the Parse commands                                   *)
(***************************************************************************)
\* C27: every Parse command issued by a reload carries the sequence of the
\* document that was opened and a revision greater than that of every Parse
\* command issued before it for that document, also when reloads follow one
\* another before the NewDocument of the first is applied.
C27_ReloadRevisionsIncrease ==
    \A j \in 2..Len(pass.ids) :
        /\ pass.ids[j].id = pass.ids[1].id
        /\ \A i \in 1..(j - 1) :
              pass.ids[i].id = pass.ids[j].id => pass.ids[i].reload_id < pass.ids[j].reload_id

(***************************************************************************)
(* Row harness: get_y called on any store the data model allows            *)
(***************************************************************************)
CallGetY ==
    /\ main_pc = "store" /\ call = NoCall
    /\ \E id \in 0..(MaxId + 1) :
          call' = [op |-> "get_y", id |-> id, pre |-> Store, ret |-> get_y(sources, id)]
    /\ UNCHANGED <<sources, updated_images>>
    /\ StoreFrame

RowSpec == StoreInit /\ [][CallGetY]_vars

\* the index of the first entry of the id
FirstEntryOf(srcs, id) ==
    CHOOSE i \in 1..Len(srcs) : srcs[i].id = id /\ \A j \in 1..(i - 1) : srcs[j].id # id

\* C28: for an id the list holds, get_y returns the sum of the heights of the
\* entries before the first entry of that id: 0 for the first entry of the
\* list, and for a run of entries of one id the row of the run's first.
C28_GetYIsRowOfFirstEntry ==
    (call.op = "get_y" /\ \E i \in 1..Len(sources) : sources[i].id = call.id) =>
        LET first == FirstEntryOf(sources, call.id)
        IN /\ call.ret = RowsUpTo(sources, first - 1)
           /\ first = 1 => call.ret = 0

\* get_y of the id of a run of two entries that follows an image of four rows
C28_Witness ==
    /\ call.op = "get_y"
    /\ Len(sources) >= 3
    /\ sources[1].id # call.id /\ sources[1].height = 4
    /\ sources[2].id = call.id /\ sources[3].id = call.id
    /\ call.ret = 4

(***************************************************************************)
(* The events of a parse pass                                              *)
(***************************************************************************)
\* the Worker has just received a Parse command: worker_out holds
\* NewDocument, the events of parse and ParseDone
JustParsed == worker_out # <<>> /\ Head(worker_out).event = "NewDocument"

PassEvents == SubSeq(worker_out, 2, Len(worker_out) - 1)

UnitIdOf(e) == IF e.event = "Parsed" THEN e.source.id ELSE e.id

\* C29: the events of one parse pass are Parsed, ParseImage and ParseHeader
\* events whose unit ids are 0, 1, 2, ... in the order they are emitted.
C29_SequentialUnitIds ==
    JustParsed =>
        \A i \in 1..Len(PassEvents) :
           /\ PassEvents[i].event \in {"Parsed", "ParseImage", "ParseHeader"}
           /\ UnitIdOf(PassEvents[i]) = i - 1

\* a pass of four events: an image request takes its id between the units
\* before and after it
C29_Witness ==
    /\ JustParsed
    /\ Len(PassEvents) >= 4
    /\ \E i \in 2..(Len(PassEvents) - 1) :
          /\ PassEvents[i].event = "ParseImage"
          /\ PassEvents[i - 1].event = "Parsed"
          /\ PassEvents[i + 1].event = "Parsed"
          /\ PassEvents[i + 1].source.id = PassEvents[i].id + 1
          /\ PassEvents[i].id = PassEvents[i - 1].source.id + 1

\* the events sent and not yet taken, and the one process_events took last
EventsSent ==
    { worker_out[i] : i \in 1..Len(worker_out) }
        \cup { event_chan[i] : i \in 1..Len(event_chan) }
        \cup (IF call # NoCall /\ call.op = "process_events" THEN {call.event} ELSE {})

\* C30: no Parsed event holds an Image: the assertion process_events makes
\* on the Parsed event it takes holds.
C30_ParsedIsNeverImage ==
    \A e \in EventsSent : e.event = "Parsed" => e.source.data.kind # "Image"

\* process_events took a Parsed event of the current document while the list
\* held an Image, which an Update had brought
C30_Witness ==
    /\ call # NoCall /\ call.op = "process_events"
    /\ call.event.event = "Parsed"
    /\ is_same_document(call.document_id, call.event.document_id)
    /\ call.event.source.data.kind = "Line"
    /\ \E i \in 1..Len(call.pre.sources) : call.pre.sources[i].data.kind = "Image"

(***************************************************************************)
(* split_headers_and_images (src/markdown/blocks.rs): the lines of a text  *)
(* cut into Header, Image and Markdown blocks.  The text of a Markdown      *)
(* block is kept as its lines: the empty String is <<>>.                    *)
(***************************************************************************)
\* the character of s at the offset i, "" past its ends
char_at(s, i) == IF 1 <= i /\ i <= Len(s) THEN SubSeq(s, i, i) ELSE ""

\* the length of the run of the character c in s from the offset from on
RECURSIVE run_len(_, _, _)
run_len(s, c, from) ==
    IF char_at(s, from) = c THEN 1 + run_len(s, c, from + 1) ELSE 0

\* str::starts_with
starts_with(s, prefix) == Len(prefix) <= Len(s) /\ SubSeq(s, 1, Len(prefix)) = prefix

\* the backtick, written ' in the texts of the model: a string of the
\* module cannot hold a backtick
Backtick == "'"

\* codefence_re, up to three blanks and a run of three or more backticks or
\* of three or more tildes: captures[1], the run of the fence
codefence_captures(line) ==
    LET spaces == run_len(line, " ", 1)
        c == char_at(line, spaces + 1)
        n == IF c \in {Backtick, "~"} THEN run_len(line, c, spaces + 1) ELSE 0
    IN IF spaces <= 3 /\ n >= 3 THEN Some(SubSeq(line, spaces + 1, spaces + n)) ELSE None

\* header_re, r"^(#+)\s*(.*)": the run of '#' and the text after the blanks
header_captures(line) ==
    LET n == run_len(line, "#", 1)
        blanks == run_len(line, " ", n + 1)
    IN IF n >= 1 THEN Some(<< SubSeq(line, 1, n), SubSeq(line, n + blanks + 1, Len(line)) >>)
       ELSE None

\* the offsets at which "](" stands in the line
ClosingBrackets(line) == { k \in 3..(Len(line) - 2) : SubSeq(line, k, k + 1) = "](" }

\* image_re, r"^!\[(.*?)\]\((.*?)\)$": the alt text and the url
image_captures(line) ==
    IF /\ starts_with(line, "![")
       /\ ClosingBrackets(line) # {}
       /\ char_at(line, Len(line)) = ")"
    THEN LET k == CHOOSE x \in ClosingBrackets(line) : \A y \in ClosingBrackets(line) : x <= y
         IN Some(<< SubSeq(line, 3, k - 1), SubSeq(line, k + 2, Len(line) - 1) >>)
    ELSE None

\* current_block with the line pushed, after a '\n' if it is not empty
push_line(current_block, line) ==
    IF current_block = <<>> THEN (IF line = "" THEN <<>> ELSE << line >>)
    ELSE Append(current_block, line)

\* blocks with the ongoing block, if there is one, pushed as Markdown
flushed(blocks, current_block) ==
    IF current_block = <<>> THEN blocks ELSE Append(blocks, MarkdownBlock(current_block))

\* every fence ends the code, whatever its run
closes_any(run, codefence_str) == TRUE

\* the end of a code fence: captures[1].starts_with(codefence_str)
closes(run, codefence_str) == starts_with(run, codefence_str)

\* the body of the loop over text.lines()
split_line(st, line) ==
    IF IsSome(st.current_codefence)
    THEN [st EXCEPT !.current_block = push_line(@, line),
                    !.current_codefence =
                        IF /\ IsSome(codefence_captures(line))
                           /\ closes(Unwrap(codefence_captures(line)), Unwrap(st.current_codefence))
                        THEN None ELSE @]
    ELSE IF IsSome(header_captures(line))
    THEN LET captures == Unwrap(header_captures(line))
         IN [st EXCEPT !.blocks = Append(flushed(st.blocks, st.current_block),
                                         HeaderBlock(Min(Len(captures[1]), 6), captures[2])),
                       !.current_block = <<>>]
    ELSE IF IsSome(image_captures(line))
    THEN LET captures == Unwrap(image_captures(line))
         IN [st EXCEPT !.blocks = Append(flushed(st.blocks, st.current_block),
                                         ImageBlock(captures[1], captures[2])),
                       !.current_block = <<>>]
    ELSE IF IsSome(codefence_captures(line))
    THEN [st EXCEPT !.current_block = push_line(@, line),
                    !.current_codefence = codefence_captures(line)]
    ELSE [st EXCEPT !.current_block = push_line(@, line)]

RECURSIVE split_lines(_, _)
split_lines(st, lines) ==
    IF lines = <<>> THEN st ELSE split_lines(split_line(st, Head(lines)), Tail(lines))

\* split_headers_and_images, of the lines of the text
split_headers_and_images(lines) ==
    LET st == split_lines([blocks |-> <<>>, current_block |-> <<>>, current_codefence |-> None],
                          lines)
    IN flushed(st.blocks, st.current_block)

(***************************************************************************)
(* Block harness: split_headers_and_images called on every text of up to   *)
(* MaxLines lines that are fences, headers, images or text.                *)
(***************************************************************************)
MaxLines == 4

TextLines ==
    { "'''", "''''c", "~~~", "  ~~~~", "# header", "#ifdef FOO", "![image](a.png)",
      "paragraph", "" }

BlockInit ==
    /\ main_pc = "blocks"
    /\ has_text_size_protocol = FALSE
    /\ ModelNew(TestSize)
    /\ session = <<>>
    /\ cycle = CycleStart
    /\ worker_pc = "running"

CallSplit ==
    /\ main_pc = "blocks" /\ call = NoCall
    /\ \E text \in UNION { [1..k -> TextLines] : k \in 0..MaxLines } :
          call' = [op |-> "split_headers_and_images", text |-> text,
                   ret |-> split_headers_and_images(text)]
    /\ UNCHANGED <<main_pc, has_text_size_protocol, document_id, sources, updated_images,
                   cmd_chan, event_chan, worker_out, tasks, reloads, pass, view, session,
                   cycle, worker_pc>>

BlockSpec == BlockInit /\ [][CallSplit]_vars

(***************************************************************************)
(* Fenced code                                                             *)
(***************************************************************************)
IsFence(line) == IsSome(codefence_captures(line))
LooksLikeBlock(line) == IsSome(header_captures(line)) \/ IsSome(image_captures(line))

\* the run of the fence that is open before line i of the text, or none: a
\* fence line outside code opens, and inside code a fence line closes if its
\* run starts with the run that opened
RECURSIVE OpenFenceBefore(_, _)
OpenFenceBefore(text, i) ==
    IF i = 1 THEN None
    ELSE LET before == OpenFenceBefore(text, i - 1)
             run == codefence_captures(text[i - 1])
         IN IF IsSome(before)
            THEN (IF IsSome(run) /\ starts_with(Unwrap(run), Unwrap(before)) THEN None ELSE before)
            ELSE IF IsFence(text[i - 1]) /\ ~LooksLikeBlock(text[i - 1]) THEN run
            ELSE None

InCode(text, i) == IsSome(OpenFenceBefore(text, i))

\* the lines of the text in order are lines of the Markdown block, in order
\* and next to one another
HoldsLines(block, lines) ==
    /\ block.block = "Markdown"
    /\ \E off \in 0..(Len(block.lines) - Len(lines)) :
          \A k \in 1..Len(lines) : block.lines[off + k] = lines[k]

TookSplit == call # NoCall /\ call.op = "split_headers_and_images"

\* C31: the lines from an opening fence up to the line that closes it (a
\* fence of the same character and at least as long), or up to the end of
\* the text, stay together in one Markdown block; a Header or Image block is
\* emitted for a line outside code only, one for each such line that looks
\* like a header or an image.
C31_FencedCodeIsOpaque ==
    TookSplit =>
        LET text == call.text
            blocks == call.ret
            outside == { i \in 1..Len(text) : ~InCode(text, i) /\ LooksLikeBlock(text[i]) }
            emitted == { j \in 1..Len(blocks) : blocks[j].block \in {"Header", "Image"} }
        IN /\ Cardinality(emitted) = Cardinality(outside)
           /\ \A a \in 1..Len(text) :
                 (IsFence(text[a]) /\ ~InCode(text, a)) =>
                    \A b \in a..Len(text) :
                       (\A i \in (a + 1)..b : InCode(text, i)) =>
                          \E j \in 1..Len(blocks) : HoldsLines(blocks[j], SubSeq(text, a, b))

\* four tildes open, three tildes and a header line follow, and all three
\* lines are one Markdown block
C31_Witness ==
    /\ TookSplit
    /\ call.text = << "  ~~~~", "~~~", "# header" >>
    /\ call.ret = << MarkdownBlock(<< "  ~~~~", "~~~", "# header" >>) >>

(***************************************************************************)
(* find_next_cursor with a number of steps                                 *)
(***************************************************************************)
MaxSteps == 7

\* one call of find_next_cursor with any number of steps from 0 to MaxSteps
CallFindSteps ==
    /\ main_pc = "nav" /\ call = NoCall
    /\ \E target \in FindTargets, mode \in FindModes, current \in NavPointers,
          steps \in 0..MaxSteps :
          call' = [op |-> "find_next_cursor_steps", target |-> target, mode |-> mode,
                   current |-> current, steps |-> steps,
                   ret |-> find_next_cursor(sources, current, mode, target, steps)]
    /\ UNCHANGED scroll
    /\ NavFrame

StepSpec == NavInit /\ [][CallFindSteps]_vars

RECURSIVE PlacesInOrder(_)
PlacesInOrder(places) ==
    IF places = {} THEN <<>>
    ELSE LET p == FirstPlace(places) IN << p >> \o PlacesInOrder(places \ {p})

\* the pointers of the matches in document order, or fully reversed for Prev
FlattenedOrder(srcs, target, mode) ==
    LET fwd == PlacesInOrder(MatchPlaces(srcs, target))
        ptrs == [k \in 1..Len(fwd) |-> PointerAt(srcs, fwd[k])]
    IN IF mode = "Next" THEN ptrs ELSE [k \in 1..Len(ptrs) |-> ptrs[Len(ptrs) + 1 - k]]

\* the position, counted from 0, at which the order first holds the pointer
FirstPositionIn(order, pointer) ==
    (CHOOSE k \in 1..Len(order) :
        order[k] = pointer /\ \A j \in 1..(k - 1) : order[j] # pointer) - 1

\* C32: find_next_cursor with steps s >= 0, when current is at position p
\* among the M matches of the flattened order (document order for Next, fully
\* reversed for Prev), returns the match at position (p + s) mod M, and
\* returns current itself when s is a multiple of M.
C32_StepsModulo ==
    call.op = "find_next_cursor_steps" =>
        LET order == FlattenedOrder(sources, call.target, call.mode)
            M == Len(order)
        IN (\E k \in 1..M : order[k] = call.current) =>
              LET p == FirstPositionIn(order, call.current)
              IN /\ call.ret = Some(order[((p + call.steps) % M) + 1])
                 /\ call.steps % M = 0 => call.ret = Some(call.current)

\* more steps than matches in mode Prev, over matches on several entries,
\* wrapped around to another match
C32_Witness ==
    /\ call.op = "find_next_cursor_steps"
    /\ call.mode = "Prev"
    /\ LET order == FlattenedOrder(sources, call.target, call.mode)
       IN /\ Len(order) >= 3
          /\ call.steps > Len(order)
          /\ \E k \in 1..Len(order) : order[k] = call.current
          /\ Cardinality({ p[1] : p \in MatchPlaces(sources, call.target) }) >= 2
          /\ call.ret # Some(call.current)
          /\ call.ret = Some(order[((FirstPositionIn(order, call.current) + call.steps)
                                        % Len(order)) + 1])

(***************************************************************************)
(* replace                                                                 *)
(***************************************************************************)
\* the places of the live list that hold an Image of the key at or above the floor
ImagePlaces(srcs, id_floor, key) ==
    { i \in 1..Len(srcs) : srcs[i].id >= id_floor /\ IsImage(srcs[i]) /\ srcs[i].data.url = key }

CachePlaces(imgs, key) == { c \in 1..Len(imgs) : imgs[c][2] = key }

Without(s, i) == SubSeq(s, 1, i - 1) \o SubSeq(s, i + 1, Len(s))

LeastOf(S) == CHOOSE i \in S : \A j \in S : i <= j

\* C33: replace(id_floor, key) returns the first Image in document order with
\* id >= id_floor whose source key equals key; if the live list has none, it
\* returns an image with that key from the side-cache and removes it from the
\* cache; it returns None only when neither holds one.  An Image with
\* id < id_floor is never returned from the live list.
C33_ReplaceFindsFirst ==
    call.op = "replace" =>
        LET pre == call.pre
            live == ImagePlaces(pre.sources, call.id, call.url)
            cached == CachePlaces(pre.updated_images, call.url)
        IN /\ live # {} =>
                /\ call.ret = Some(pre.sources[LeastOf(live)])
                /\ Unwrap(call.ret).id >= call.id
           /\ (live = {} /\ cached # {}) =>
                /\ IsSome(call.ret)
                /\ Unwrap(call.ret).data.kind = "Image"
                /\ Unwrap(call.ret).data.url = call.url
                /\ \E c \in cached :
                      /\ pre.updated_images[c] = << Unwrap(call.ret).height, call.url,
                                                    Unwrap(call.ret).data.proto >>
                      /\ updated_images = Without(pre.updated_images, c)
                /\ sources = pre.sources
           /\ call.ret = None <=> (live = {} /\ cached = {})
           /\ \A i \in 1..Len(pre.sources) :
                 pre.sources[i].id < call.id => sources[i] = pre.sources[i]

\* an Image of the key below the floor was passed over for a later one
C33_Witness ==
    /\ call.op = "replace"
    /\ \E i \in 1..Len(call.pre.sources) :
          /\ call.pre.sources[i].id < call.id
          /\ IsImage(call.pre.sources[i])
          /\ call.pre.sources[i].data.url = call.url
    /\ Cardinality(ImagePlaces(call.pre.sources, call.id, call.url)) >= 2
    /\ IsSome(call.ret)
    /\ Unwrap(call.ret).id >= call.id
    /\ CachePlaces(call.pre.updated_images, call.url) # {}
    /\ updated_images = call.pre.updated_images

\* C34: when replace finds the image in the live list it swaps in place: the
\* live list keeps its length, the entry keeps its id and becomes a one-row
\* placeholder Line, and every other entry and the side-cache are unchanged;
\* when replace returns None the live list and the side-cache are unchanged.
C34_ReplaceSwapsInPlace ==
    call.op = "replace" =>
        LET pre == call.pre
            live == ImagePlaces(pre.sources, call.id, call.url)
        IN /\ live # {} =>
                LET i == LeastOf(live)
                IN /\ Len(sources) = Len(pre.sources)
                   /\ sources[i].id = pre.sources[i].id
                   /\ sources[i].height = 1
                   /\ sources[i].data.kind = "Line"
                   /\ sources[i].data.line = "![Replacing...](" \o call.url \o ")"
                   /\ sources[i].data.extras = <<>>
                   /\ \A j \in 1..Len(pre.sources) : j # i => sources[j] = pre.sources[j]
                   /\ updated_images = pre.updated_images
           /\ call.ret = None => Store = pre

\* an Image of several rows between other entries became a placeholder of one
\* row, next to a side-cache that holds an image
C34_Witness ==
    /\ call.op = "replace"
    /\ IsSome(call.ret)
    /\ Unwrap(call.ret).height > 1
    /\ call.pre.updated_images # <<>>
    /\ Len(sources) = Len(call.pre.sources)
    /\ \E i \in 2..(Len(sources) - 1) :
          /\ call.pre.sources[i] = Unwrap(call.ret)
          /\ sources[i].data.kind = "Line"
          /\ sources[i].height = 1

(***************************************************************************)
(* The side-cache                                                          *)
(***************************************************************************)
\* the Image payloads of a list, as the side-cache holds them
RECURSIVE ImagePayloads(_)
ImagePayloads(srcs) ==
    IF srcs = <<>> THEN <<>>
    ELSE (IF Head(srcs).data.kind = "Image"
          THEN << <<Head(srcs).height, Head(srcs).data.url, Head(srcs).data.proto>> >>
          ELSE <<>>) \o ImagePayloads(Tail(srcs))

\* the entries update takes out of the live list: the run of the id of its list
RemovedBy(srcs, updates) ==
    IF updates = <<>> THEN <<>>
    ELSE SelectSeq(srcs, LAMBDA u : u.id = updates[1].id)

\* C35: update moves every Image payload it removes from the live list into
\* the side-cache, and trim_last_source empties the side-cache for every
\* argument; with None or with an id absent from the live list,
\* trim_last_source leaves the live list unchanged.
C35_SideCache ==
    /\ call.op = "update" =>
          updated_images = call.pre.updated_images
                              \o ImagePayloads(RemovedBy(call.pre.sources, call.updates))
    /\ (call.op = "trim_last_source" /\ call.n = 1) =>
          /\ updated_images = <<>>
          /\ (\/ call.last_source_id = None
              \/ ~HasId(call.pre.sources, Unwrap(call.last_source_id)))
                => sources = call.pre.sources

\* update replaced a run that held two images, next to a side-cache that
\* held one: the side-cache holds three
C35_Witness ==
    /\ call.op = "update"
    /\ call.updates # <<>>
    /\ call.pre.updated_images # <<>>
    /\ Len(updated_images) = Len(call.pre.updated_images) + 2
    /\ Len(sources) < Len(call.pre.sources)

(***************************************************************************)
(* push                                                                    *)
(***************************************************************************)
\* the unit process_events hands to WidgetSources::push for an event, if any
pushed(did, ws, event) ==
    IF event.event \notin {"Parsed", "ParseImage", "ParseHeader"} THEN None
    ELSE IF is_stale(did, event) THEN None
    ELSE IF ~is_first_load(did) THEN None
    ELSE CASE event.event = "Parsed" -> Some(event.source)
           [] event.event = "ParseImage" ->
                 IF IsSome(replace(ws, event.id, event.url).ret) THEN None
                 ELSE Some(WidgetSource(event.id, 1, LoadingLine(event.url)))
           [] event.event = "ParseHeader" ->
                 Some(WidgetSource(event.id, 2, HeaderLine(event.tier, event.text)))

\* process_events took last an event of a parse pass that passed the gate
TookUnit ==
    /\ call.op = "process_events"
    /\ call.event.event \in {"Parsed", "ParseImage", "ParseHeader"}
    /\ call.event.document_id.id = call.document_id.id

UnitOf(event) == IF event.event = "Parsed" THEN event.source.id ELSE event.id

\* C36: process_events appends with push only while the current document id
\* has revision 0 and uses update otherwise, and in every reachable state in
\* which push is called the pushed id is not yet present in the live list
\* (it is greater than every id there), so the uniqueness assertion of push
\* never fails.
C36_PushIdsAreFresh ==
    TookUnit =>
        LET unit == pushed(call.document_id, call.pre, call.event)
            pre == call.pre.sources
        IN /\ IsSome(unit) =>
                /\ call.document_id.reload_id = 0
                /\ \A i \in 1..Len(pre) : pre[i].id < Unwrap(unit).id
                /\ push_assertion(call.pre, Unwrap(unit))
                /\ sources = Append(pre, Unwrap(unit))
           /\ call.document_id.reload_id # 0 =>
                /\ unit = None
                /\ Len(sources) > Len(pre) =>
                      \A i \in 1..Len(pre) : pre[i].id < UnitOf(call.event)

\* the placeholder of an image was pushed behind two units, after a reload
\* had been asked for
C36_Witness ==
    /\ TookUnit
    /\ call.event.event = "ParseImage"
    /\ IsSome(pushed(call.document_id, call.pre, call.event))
    /\ Unwrap(pushed(call.document_id, call.pre, call.event)).id >= 2
    /\ Len(call.pre.sources) >= 2
    /\ sources = Append(call.pre.sources, Unwrap(pushed(call.document_id, call.pre, call.event)))
    /\ Len(pass.texts) >= 2

(***************************************************************************)
(* The Model's DocumentId over time                                        *)
(***************************************************************************)
\* C37: the Model's current document id never moves backwards: across any
\* interleaving of open, reloads (a reload issued before the first
\* NewDocument has been applied included) and applied NewDocument events,
\* its sequence never decreases, and its revision never decreases while the
\* sequence is unchanged.
C37_DocumentIdNeverMovesBack ==
    [][/\ document_id'.id >= document_id.id
       /\ document_id'.id = document_id.id => document_id'.reload_id >= document_id.reload_id]_vars

(***************************************************************************)
(* The live list after a reparse                                           *)
(***************************************************************************)
\* process_events took last the ParseDone of a reparse, tagged with the
\* Model's own DocumentId and naming a last unit id
TookReparseDone ==
    /\ call.op = "process_events"
    /\ call.event.event = "ParseDone"
    /\ call.event.document_id = call.document_id
    /\ call.document_id.reload_id >= 1
    /\ IsSome(call.event.last_source_id)

IsReplacing(source) ==
    /\ source.data.kind = "Line"
    /\ starts_with(source.data.line, "![Replacing...](")

\* C38: immediately after the ParseDone(Some(n)) of a reparse has been
\* applied, the set of ids in the live list is exactly {0..n} and no
\* Replacing placeholder left by the dedup path remains, whatever the store
\* held before the reparse, an empty store included.
C38_ReparseLeavesAllIds ==
    TookReparseDone =>
        /\ { sources[i].id : i \in 1..Len(sources) } = 0..Unwrap(call.event.last_source_id)
        /\ \A i \in 1..Len(sources) : ~IsReplacing(sources[i])

(***************************************************************************)
(* The pointer after a step of the cursor                                  *)
(***************************************************************************)
\* the pointer designates an extra of the target on some entry of its id
Designates(srcs, p, target) ==
    \E i \in 1..Len(srcs) :
        /\ srcs[i].id = p.id
        /\ srcs[i].data.kind = "Line"
        /\ p.index + 1 <= Len(srcs[i].data.extras)
        /\ matches(target, srcs[i].data.extras[p.index + 1])

\* C39: after every cursor_next or cursor_prev, if the navigator holds a
\* pointer then that pointer designates an existing extra of the matching
\* kind in the live list (a Link in Links mode, a SearchMatch in Search
\* mode), even when the unit it pointed to before the step was replaced or
\* trimmed by events.
C39_PointerDesignatesExtra ==
    call.op \in {"cursor_next", "cursor_prev"} =>
        (IsSome(pointer_of(cursor)) =>
            Designates(sources, Unwrap(pointer_of(cursor)),
                       IF cursor.kind = "Links" THEN "Link" ELSE "Search"))

(***************************************************************************)
(* The matches of the needle while the search lasts                        *)
(***************************************************************************)
\* the SearchMatch extras of the line are the occurrences of the needle from
\* left to right; for the empty needle of a search just opened, none
CarriesMatchesOf(data, needle) ==
    LET found == SearchMatchesOf(data)
        taken == TakenOccurrences(needle, data.line)
    IN \/ needle = "" /\ found = <<>>
       \/ /\ Len(found) = Cardinality(taken)
          /\ \A k \in 1..Len(found) :
                /\ found[k].start \in taken
                /\ found[k].end = found[k].start + Len(needle)
                /\ k > 1 => found[k - 1].start < found[k].start

\* C40: while the navigator is in Search with needle n, in every reachable
\* state every Line unit carries exactly the SearchMatch extras for n, also
\* for units pushed or spliced in by events after the last needle edit and
\* after a new search is started over the matches of a previous one.
C40_UnitsCarryMatchesOfNeedle ==
    cursor.kind = "Search" =>
        \A i \in 1..Len(sources) :
            sources[i].data.kind = "Line"
                => CarriesMatchesOf(sources[i].data, cursor.state.needle)

====
